---- MODULE Spec2Model ----
(***************************************************************************)
(* Model of the ORCA packet streamer of legend-daq2lh5                     *)
(* (src/src/daq2lh5/orca/orca_streamer.py, class OrcaStreamer).            *)
(*                                                                         *)
(* The byte source is a file of 32-bit little-endian words followed by     *)
(* 0..3 trailing bytes.  A word is kept as the int32 reading of its 32     *)
(* bits, so a word whose bit 31 is set (a short packet) is negative.       *)
(* Every public operation of the streamer is one action; the loops inside  *)
(* an operation are recursive operators that follow the code statement by  *)
(* statement.                                                              *)
(***************************************************************************)
EXTENDS Integers, Sequences, FiniteSets, TLC

(***************************************************************************)
(* Bounds of the exploration.                                              *)
(***************************************************************************)
MaxWords == 4          \* the file is at most this many words long
MaxBytesRead == 8      \* n_bytes_read is counted up to this many bytes
BufferLen0 == 1        \* initial length of the packet buffer, in words

(***************************************************************************)
(* Bit layout of a header word.                                            *)
(***************************************************************************)
NWordsModulus == 262144                 \* 2^18: low 18 bits, mask 0x3FFFF
ShortIdModulus == 67108864              \* 2^26: a short packet's id is above
MaxInt32 == 2147483647                  \* 2^31 - 1: bit 31 is the sign

Min(a, b) == IF a < b THEN a ELSE b
Max(a, b) == IF a > b THEN a ELSE b

\* A long packet header for destination id and total word count nw.
LongWord(id, nw) == id * NWordsModulus + nw
\* A short packet header (bit 31 set) for destination id.
ShortWord(id) == (id * ShortIdModulus - MaxInt32) - 1

(***************************************************************************)
(* Packet codec (orca_packet).                                             *)
(***************************************************************************)
is_short(w) == w < 0

get_n_words(w) == IF is_short(w) THEN 1 ELSE w % NWordsModulus

get_data_id(w, shift) ==
    IF is_short(w)
    THEN IF shift THEN ((w + MaxInt32) + 1) \div ShortIdModulus
                  ELSE w - (w % ShortIdModulus)
    ELSE IF shift THEN w \div NWordsModulus
                  ELSE w - (w % NWordsModulus)

(***************************************************************************)
(* Header metadata of the stream (the parsed XML of the header packet)     *)
(* and the decoder implementations and buffers available to open_stream.   *)
(***************************************************************************)
IdBound == 1        \* destination id of a decoder with a bound buffer list
IdMissing == 2      \* destination id whose decoder type has no implementation
IdNoBuffer == 3     \* destination id of a decoder the buffer library omits
IdAbsent == 4       \* destination id the header does not declare

\* header.get_id_to_decoder_name_dict(shift_data_id=False), in key order
HeaderIds ==
    << get_data_id(LongWord(IdBound, 0), FALSE),
       get_data_id(ShortWord(IdBound), FALSE),
       get_data_id(LongWord(IdMissing, 0), FALSE),
       get_data_id(LongWord(IdNoBuffer, 0), FALSE) >>

IdToDecName ==
    [k \in {HeaderIds[i] : i \in 1..Len(HeaderIds)} |->
        IF k = get_data_id(LongWord(IdMissing, 0), FALSE) THEN "ORMissingDecoder"
        ELSE IF k = get_data_id(LongWord(IdNoBuffer, 0), FALSE)
             THEN "ORRunDecoderForRun"
             ELSE "ORFlashCamWaveformDecoder"]

\* the decoder classes the module imports (globals())
Implemented == {"ORFlashCamWaveformDecoder", "ORRunDecoderForRun"}

\* the names of the caller's buffer library
RbLib == {"ORFlashCamWaveformDecoder"}

(***************************************************************************)
(* The words a stream is made of.                                          *)
(***************************************************************************)
\* the header packet, its XML payload left out
HeaderWord == LongWord(0, 1)
RECURSIVE SeqsUpTo(_, _)
SeqsUpTo(S, n) ==
    IF n = 0 THEN { <<>> }
    ELSE LET shorter == SeqsUpTo(S, n - 1)
         IN shorter \cup { Append(q, w) : q \in {r \in shorter : Len(r) = n - 1},
                                          w \in S }

VARIABLES
    stream,            \* the whole words of the file
    tail,              \* number of bytes (0..3) after the last whole word
    in_stream,         \* "None" or "open"
    pos,               \* in_stream.tell()
    packet_id,
    packet_locs,
    n_bytes_read,
    buffer,            \* the reusable packet buffer, a sequence of words
    header,            \* "None" until the header packet has been decoded
    decoder_id_dict,   \* data id -> decoder object
    rbl_id_dict,       \* data id -> name of its RawBufferList
    missing_decoders,
    any_full,
    sequential,        \* only read_packet has been called since open_stream
    decoded,           \* while sequential: packet numbers handed to decode_packet
    warned,            \* while sequential: data ids of the "no implementation"
                       \* warnings, in order
    debugged,          \* while sequential: data ids of read_packet's debug
                       \* records, in order
    hung,              \* an operation is in a loop that never ends
    last,              \* the operation that ran last and what it returned
    file,              \* the file is_orca_stream is asked about
    weak_scalars,      \* the installed numpy keeps uint32 in uint32 op int
    probe_open,        \* streams is_orca_stream opened and has not closed
    probe_last,        \* what is_orca_stream did
    status_rb,         \* the RawBuffer the FlashCam status records go to
    fc_packet_id,      \* packets handed to a FlashCam decoder so far
    fc_last,           \* what the last FlashCam decode_packet did
    fc_config,         \* the FlashCam file's config: nadcs, nsamples
    rbs,               \* the RawBuffers of the event decoder's buffer list
    evt_rbkd,          \* channel key -> number of its RawBuffer in rbs
    skipped_channels,  \* FCEventDecoder.skipped_channels
    debug_log,         \* channels of the "skipping packets" log records
    events,            \* the events decoded so far: trace list, packet id
    heap,              \* the schema dicts: heap[1] is the module's
                       \* fc_decoded_values, the others belong to decoders
    decoders,          \* the FCEventDecoder objects made so far
    schema_last        \* the last operation on a schema

probe_vars == << file, weak_scalars, probe_open, probe_last >>

event_vars == << fc_config, rbs, evt_rbkd, skipped_channels, debug_log,
                 events >>

schema_vars == << heap, decoders, schema_last >>

fc_vars == << status_rb, fc_packet_id, fc_last, event_vars, schema_vars >>

\* what no operation of the streamer touches
outside_streamer == << probe_vars, fc_vars >>

vars == << stream, tail, in_stream, pos, packet_id, packet_locs, n_bytes_read,
           buffer, header, decoder_id_dict, rbl_id_dict, missing_decoders,
           any_full, sequential, decoded, warned, debugged, hung, last,
           outside_streamer >>

(***************************************************************************)
(* The byte source.                                                        *)
(***************************************************************************)
Size == 4 * Len(stream) + tail

\* a word whose first nb bytes (the low-order ones) were overwritten by the
\* file's trailing bytes, which are zero bytes
PartialWord(old, nb) ==
    IF nb = 0 THEN old
    ELSE IF nb = 1 THEN old - (old % 256)
    ELSE IF nb = 2 THEN old - (old % 65536)
    ELSE old - (old % 16777216)

\* self.n_bytes_read += n_bytes_read; the count is kept up to MaxBytesRead
count_bytes(total, n) == Min(total + n, MaxBytesRead)

\* in_stream.readinto(buffer[first:first+want]), first counting from 0:
\* the streamer afterwards and the number of bytes read
readinto(s, first, want) ==
    LET avail == Max(0, Size - s.pos)
        n == Min(4 * want, avail)
        whole == n \div 4
        w0 == s.pos \div 4
        buf == [j \in 1..Len(s.buffer) |->
                  IF j > first /\ j <= first + whole
                  THEN stream[w0 + (j - first)]
                  ELSE IF j = first + whole + 1
                  THEN PartialWord(s.buffer[j], n % 4)
                  ELSE s.buffer[j]]
    IN [s |-> [s EXCEPT !.buffer = buf, !.pos = s.pos + n,
                        !.n_bytes_read = count_bytes(s.n_bytes_read, n)],
        n |-> n]

\* buffer.resize(n_words, refcheck=False): new words are zero
resize(buf, n) == [j \in 1..n |-> IF j <= Len(buf) THEN buf[j] ELSE 0]

(***************************************************************************)
(* The streamer's fields an operation works on, and what it hands back:    *)
(*   err  "none", or the exception raised, or "hang" for a loop without end *)
(*   ret  "None", "packet", "True" or "False"                              *)
(*   n    the length of the returned view, in words                        *)
(***************************************************************************)
St == [pos |-> pos, packet_id |-> packet_id, packet_locs |-> packet_locs,
       n_bytes_read |-> n_bytes_read, buffer |-> buffer]

Out(s, err, ret, n) == [s |-> s, err |-> err, ret |-> ret, n |-> n]

\* an iteration count no terminating loop over the stream reaches
Fuel == Len(stream) + 2

\* a load_packet_header that counts the packet before it looks at the
\* number of bytes read
load_packet_header_counts_first(s) ==
    LET valid(s2, filepos) ==
            IF s2.packet_id < Len(s2.packet_locs)
            THEN IF s2.packet_locs[s2.packet_id + 1] # filepos
                 THEN Out(s2, "RuntimeError: filepos", "None", 0)
                 ELSE Out(s2, "none", "packet", 1)
            ELSE IF Len(s2.packet_locs) # s2.packet_id
                 THEN Out(s2, "RuntimeError: packet order", "None", 0)
                 ELSE Out([s2 EXCEPT !.packet_locs = Append(@, filepos)],
                          "none", "packet", 1)
        counted(s2, n) ==
            IF n = 0 THEN Out(s2, "none", "None", 0)
            ELSE IF n # 4
            THEN Out(s2, "RuntimeError: header bytes", "None", 0)
            ELSE valid(s2, s2.pos - n)
        read(r) == counted([r.s EXCEPT !.packet_id = s.packet_id + 1], r.n)
    IN read(readinto(s, 0, 1))

load_packet_header(s) ==
    LET valid(s2, filepos) ==
            IF s2.packet_id < Len(s2.packet_locs)
            THEN IF s2.packet_locs[s2.packet_id + 1] # filepos
                 THEN Out(s2, "RuntimeError: filepos", "None", 0)
                 ELSE Out(s2, "none", "packet", 1)
            ELSE IF Len(s2.packet_locs) # s2.packet_id
                 THEN Out(s2, "RuntimeError: packet order", "None", 0)
                 ELSE Out([s2 EXCEPT !.packet_locs = Append(@, filepos)],
                          "none", "packet", 1)
        read(r) ==
            IF r.n = 0 THEN Out(r.s, "none", "None", 0)
            ELSE IF r.n # 4
            THEN Out(r.s, "RuntimeError: header bytes", "None", 0)
            ELSE valid([r.s EXCEPT !.packet_id = s.packet_id + 1],
                       r.s.pos - r.n)
    IN read(readinto(s, 0, 1))

\* a seek that forgets the header word it has already read
seek_cur_whole_packet(s, offset) == [s EXCEPT !.pos = s.pos + offset + 4]

\* in_stream.seek(offset, 1)
seek_cur(s, offset) == [s EXCEPT !.pos = s.pos + offset]

\* a skip that reads the payload of the packets it passes over into the
\* packet buffer instead of seeking past it
RECURSIVE skip_loop_loads_packet(_, _)
skip_loop_loads_packet(s, n) ==
    LET payload(hs, n_words) ==
            readinto(IF Len(hs.buffer) < n_words
                     THEN [hs EXCEPT !.buffer = resize(@, n_words)]
                     ELSE hs,
                     1, Max(0, n_words - 1)).s
        skipped(h) ==
            IF h.err # "none" THEN h
            ELSE IF h.ret = "None" THEN Out(h.s, "none", "False", 0)
            ELSE skip_loop_loads_packet(
                     payload(h.s, get_n_words(h.s.buffer[1])), n - 1)
    IN IF ~(n > 0) THEN Out(s, "none", "True", 0)
       ELSE skipped(load_packet_header(s))

RECURSIVE skip_loop(_, _)
skip_loop(s, n) ==
    LET skipped(h) ==
            IF h.err # "none" THEN h
            ELSE IF h.ret = "None" THEN Out(h.s, "none", "False", 0)
            ELSE skip_loop(seek_cur(h.s, (get_n_words(h.s.buffer[1]) - 1) * 4),
                           n - 1)
    IN IF ~(n > 0) THEN Out(s, "none", "True", 0)
       ELSE skipped(load_packet_header(s))

\* a skip_packet without the check of n
skip_packet_unchecked(s, n) == skip_loop(s, n)

skip_packet(s, n) ==
    IF ~(n >= 0) THEN Out(s, "ValueError", "None", 0)
    ELSE skip_loop(s, n)

RECURSIVE build_loop(_, _)
build_loop(s, fuel) ==
    LET skipped(r) ==
            IF r.err # "none" \/ r.ret = "False" THEN r
            ELSE build_loop(r.s, fuel - 1)
    IN IF fuel = 0 THEN Out(s, "hang", "None", 0)
       ELSE skipped(skip_packet(s, 1))

\* a build_packet_locs that resumes at the last index entry with the
\* counter on that entry instead of before it
build_packet_locs_counter_on_last(s, saveloc) ==
    LET built(r) ==
            IF r.err # "none" THEN r
            ELSE IF saveloc
            THEN Out([r.s EXCEPT !.pos = s.pos, !.packet_id = s.packet_id],
                     "none", "None", 0)
            ELSE Out(r.s, "none", "None", 0)
    IN built(build_loop(IF Len(s.packet_locs) > 0
                        THEN [s EXCEPT !.pos = s.packet_locs[Len(s.packet_locs)],
                                       !.packet_id = Len(s.packet_locs) - 1]
                        ELSE s,
                        Fuel))

\* a build_packet_locs that restores the read location but not the counter
build_packet_locs_restores_loc_only(s, saveloc) ==
    LET built(r) ==
            IF r.err # "none" THEN r
            ELSE IF saveloc
            THEN Out([r.s EXCEPT !.pos = s.pos], "none", "None", 0)
            ELSE Out(r.s, "none", "None", 0)
    IN built(build_loop(IF Len(s.packet_locs) > 0
                        THEN [s EXCEPT !.pos = s.packet_locs[Len(s.packet_locs)],
                                       !.packet_id = Len(s.packet_locs) - 2]
                        ELSE s,
                        Fuel))

build_packet_locs(s, saveloc) ==
    LET built(r) ==
            IF r.err # "none" THEN r
            ELSE IF saveloc
            THEN Out([r.s EXCEPT !.pos = s.pos, !.packet_id = s.packet_id],
                     "none", "None", 0)
            ELSE Out(r.s, "none", "None", 0)
    IN built(build_loop(IF Len(s.packet_locs) > 0
                        THEN [s EXCEPT !.pos = s.packet_locs[Len(s.packet_locs)],
                                       !.packet_id = Len(s.packet_locs) - 2]
                        ELSE s,
                        Fuel))

count_packets(s, saveloc) ==
    LET counted(r) ==
            IF r.err # "none" THEN r
            ELSE Out(r.s, "none", "count", Len(r.s.packet_locs))
    IN counted(build_packet_locs(s, saveloc))

RECURSIVE seek_loop(_, _, _)
seek_loop(s, index, fuel) ==
    LET skipped(r) ==
            IF r.err # "none" \/ r.ret = "False" THEN r
            ELSE seek_loop(r.s, index, fuel - 1)
    IN IF ~(index >= Len(s.packet_locs)) THEN Out(s, "none", "True", 0)
       ELSE IF fuel = 0 THEN Out(s, "hang", "None", 0)
       ELSE skipped(skip_packet(s, 1))

\* a load_packet that hands back the header of a packet without decoder
\* and leaves the cursor at its payload
load_packet_body_skip_without_seek(s, skip_unknown_ids) ==
    LET read(n_words, r) ==
            IF r.n # (n_words - 1) * 4
            THEN Out(r.s, "none", "None", 0)
            ELSE Out(r.s, "none", "packet", n_words)
        long(hs, n_words) ==
            IF skip_unknown_ids
               /\ get_data_id(hs.buffer[1], FALSE) \notin DOMAIN decoder_id_dict
            THEN Out(hs, "none", "packet", 1)
            ELSE read(n_words,
                      readinto(IF Len(hs.buffer) < n_words
                               THEN [hs EXCEPT !.buffer = resize(@, n_words)]
                               ELSE hs,
                               1, Max(0, n_words - 1)))
        loaded(h) ==
            IF h.err # "none" \/ h.ret = "None" THEN h
            ELSE IF is_short(h.s.buffer[1]) THEN Out(h.s, "none", "packet", 1)
            ELSE long(h.s, get_n_words(h.s.buffer[1]))
    IN loaded(load_packet_header(s))

\* a load_packet that does not compare the payload bytes read with the
\* bytes declared
load_packet_body_ignores_short_read(s, skip_unknown_ids) ==
    LET read(n_words, r) == Out(r.s, "none", "packet", n_words)
        long(hs, n_words) ==
            IF skip_unknown_ids
               /\ get_data_id(hs.buffer[1], FALSE) \notin DOMAIN decoder_id_dict
            THEN Out(seek_cur(hs, (n_words - 1) * 4), "none", "packet", 1)
            ELSE read(n_words,
                      readinto(IF Len(hs.buffer) < n_words
                               THEN [hs EXCEPT !.buffer = resize(@, n_words)]
                               ELSE hs,
                               1, Max(0, n_words - 1)))
        loaded(h) ==
            IF h.err # "none" \/ h.ret = "None" THEN h
            ELSE IF is_short(h.s.buffer[1]) THEN Out(h.s, "none", "packet", 1)
            ELSE long(h.s, get_n_words(h.s.buffer[1]))
    IN loaded(load_packet_header(s))

\* load_packet from "# load packet header" on
load_packet_body(s, skip_unknown_ids) ==
    LET read(n_words, r) ==
            IF r.n # (n_words - 1) * 4
            THEN Out(r.s, "none", "None", 0)
            ELSE Out(r.s, "none", "packet", n_words)
        long(hs, n_words) ==
            IF skip_unknown_ids
               /\ get_data_id(hs.buffer[1], FALSE) \notin DOMAIN decoder_id_dict
            THEN Out(seek_cur(hs, (n_words - 1) * 4), "none", "packet", 1)
            ELSE read(n_words,
                      readinto(IF Len(hs.buffer) < n_words
                               THEN [hs EXCEPT !.buffer = resize(@, n_words)]
                               ELSE hs,
                               1, Max(0, n_words - 1)))
        loaded(h) ==
            IF h.err # "none" \/ h.ret = "None" THEN h
            ELSE IF is_short(h.s.buffer[1]) THEN Out(h.s, "none", "packet", 1)
            ELSE long(h.s, get_n_words(h.s.buffer[1]))
    IN loaded(load_packet_header(s))

\* the packet number an index resolves to once whence has been applied
resolve_index(s, index, whence) ==
    IF whence = 1 THEN index + (s.packet_id - 1)
    ELSE IF whence = 2 THEN index + (Len(s.packet_locs) - 2)
    ELSE index

\* a load_packet that rewinds the file on a negative packet number but
\* forgets the packet counter
load_packet_keeps_counter(s, has_index, index, whence, skip_unknown_ids) ==
    LET found(k, abs) ==
            IF k.err # "none" THEN k
            ELSE IF k.ret = "False" THEN Out(k.s, "none", "None", 0)
            ELSE load_packet_body(
                     [k.s EXCEPT !.pos = k.s.packet_locs[abs + 1],
                                 !.packet_id = abs - 1],
                     skip_unknown_ids)
        resolved(b, abs) ==
            IF b.err # "none" THEN b
            ELSE IF abs < 0
            THEN Out([b.s EXCEPT !.pos = 0], "none", "None", 0)
            ELSE found(seek_loop(b.s, abs, Fuel), abs)
        built(b) == resolved(b, resolve_index(b.s, index, whence))
    IN IF ~has_index THEN load_packet_body(s, skip_unknown_ids)
       ELSE IF whence \notin {0, 1, 2} THEN Out(s, "ValueError", "None", 0)
       ELSE built(IF whence = 2 THEN build_packet_locs(s, FALSE)
                  ELSE Out(s, "none", "None", 0))

\* a load_packet that rewinds the file before it rejects whence
load_packet_rewinds_on_bad_whence(s, has_index, index, whence, skip_unknown_ids) ==
    LET found(k, abs) ==
            IF k.err # "none" THEN k
            ELSE IF k.ret = "False" THEN Out(k.s, "none", "None", 0)
            ELSE load_packet_body(
                     [k.s EXCEPT !.pos = k.s.packet_locs[abs + 1],
                                 !.packet_id = abs - 1],
                     skip_unknown_ids)
        resolved(b, abs) ==
            IF b.err # "none" THEN b
            ELSE IF abs < 0
            THEN Out([b.s EXCEPT !.pos = 0, !.packet_id = -1],
                     "none", "None", 0)
            ELSE found(seek_loop(b.s, abs, Fuel), abs)
        built(b) == resolved(b, resolve_index(b.s, index, whence))
    IN IF ~has_index THEN load_packet_body(s, skip_unknown_ids)
       ELSE IF whence \notin {0, 1, 2}
       THEN Out([s EXCEPT !.pos = 0, !.packet_id = -1], "ValueError", "None", 0)
       ELSE built(IF whence = 2 THEN build_packet_locs(s, FALSE)
                  ELSE Out(s, "none", "None", 0))

\* a load_packet that seeks to packet number abs with the counter already
\* at abs
load_packet_counter_at_index(s, has_index, index, whence, skip_unknown_ids) ==
    LET found(k, abs) ==
            IF k.err # "none" THEN k
            ELSE IF k.ret = "False" THEN Out(k.s, "none", "None", 0)
            ELSE load_packet_body(
                     [k.s EXCEPT !.pos = k.s.packet_locs[abs + 1],
                                 !.packet_id = abs],
                     skip_unknown_ids)
        resolved(b, abs) ==
            IF b.err # "none" THEN b
            ELSE IF abs < 0
            THEN Out([b.s EXCEPT !.pos = 0, !.packet_id = -1],
                     "none", "None", 0)
            ELSE found(seek_loop(b.s, abs, Fuel), abs)
        built(b) == resolved(b, resolve_index(b.s, index, whence))
    IN IF ~has_index THEN load_packet_body(s, skip_unknown_ids)
       ELSE IF whence \notin {0, 1, 2} THEN Out(s, "ValueError", "None", 0)
       ELSE built(IF whence = 2 THEN build_packet_locs(s, FALSE)
                  ELSE Out(s, "none", "None", 0))

load_packet(s, has_index, index, whence, skip_unknown_ids) ==
    LET found(k, abs) ==
            IF k.err # "none" THEN k
            ELSE IF k.ret = "False" THEN Out(k.s, "none", "None", 0)
            ELSE load_packet_body(
                     [k.s EXCEPT !.pos = k.s.packet_locs[abs + 1],
                                 !.packet_id = abs - 1],
                     skip_unknown_ids)
        resolved(b, abs) ==
            IF b.err # "none" THEN b
            ELSE IF abs < 0
            THEN Out([b.s EXCEPT !.pos = 0, !.packet_id = -1],
                     "none", "None", 0)
            ELSE found(seek_loop(b.s, abs, Fuel), abs)
        built(b) == resolved(b, resolve_index(b.s, index, whence))
    IN IF ~has_index THEN load_packet_body(s, skip_unknown_ids)
       ELSE IF whence \notin {0, 1, 2} THEN Out(s, "ValueError", "None", 0)
       ELSE built(IF whence = 2 THEN build_packet_locs(s, FALSE)
                  ELSE Out(s, "none", "None", 0))

InSeq(x, q) == \E i \in 1..Len(q) : q[i] = x

\* read_packet's "read until we get a decodeable packet" loop; dec tells
\* whether the loop ended in a break, with the packet to decode loaded
ReadOut(r, dec, warns, debugs) ==
    [s |-> r.s, err |-> r.err, ret |-> r.ret, n |-> r.n, dec |-> dec,
     warns |-> warns, debugs |-> debugs]

\* a loop that gives up at the first packet without an implemented decoder
RECURSIVE read_loop_stops_at_missing(_, _, _, _)
read_loop_stops_at_missing(s, warns, debugs, fuel) ==
    LET packet(r, data_id) ==
            IF r.err # "none" THEN ReadOut(r, FALSE, warns, debugs)
            ELSE IF r.ret = "None"
            THEN ReadOut(Out(r.s, "none", "False", 0), FALSE, warns, debugs)
            ELSE IF InSeq(data_id, missing_decoders)
            THEN ReadOut(Out(r.s, "none", "False", 0), FALSE,
                         Append(warns, data_id), Append(debugs, data_id))
            ELSE IF data_id \in DOMAIN rbl_id_dict
            THEN ReadOut(r, TRUE, warns, Append(debugs, data_id))
            ELSE read_loop_stops_at_missing(r.s, warns, Append(debugs, data_id),
                                            fuel - 1)
        loaded(r) == packet(r, get_data_id(r.s.buffer[1], FALSE))
    IN IF fuel = 0 THEN ReadOut(Out(s, "hang", "None", 0), FALSE, warns, debugs)
       ELSE loaded(load_packet(s, FALSE, 0, 0, TRUE))

\* a loop that takes every packet without a missing decoder as decodeable
RECURSIVE read_loop_decodes_unbound(_, _, _, _)
read_loop_decodes_unbound(s, warns, debugs, fuel) ==
    LET packet(r, data_id) ==
            IF r.err # "none" THEN ReadOut(r, FALSE, warns, debugs)
            ELSE IF r.ret = "None"
            THEN ReadOut(Out(r.s, "none", "False", 0), FALSE, warns, debugs)
            ELSE IF InSeq(data_id, missing_decoders)
            THEN read_loop_decodes_unbound(r.s, Append(warns, data_id),
                                           Append(debugs, data_id), fuel - 1)
            ELSE ReadOut(r, TRUE, warns, Append(debugs, data_id))
        loaded(r) == packet(r, get_data_id(r.s.buffer[1], FALSE))
    IN IF fuel = 0 THEN ReadOut(Out(s, "hang", "None", 0), FALSE, warns, debugs)
       ELSE loaded(load_packet(s, FALSE, 0, 0, TRUE))

RECURSIVE read_loop(_, _, _, _)
read_loop(s, warns, debugs, fuel) ==
    LET packet(r, data_id) ==
            IF r.err # "none" THEN ReadOut(r, FALSE, warns, debugs)
            ELSE IF r.ret = "None"
            THEN ReadOut(Out(r.s, "none", "False", 0), FALSE, warns, debugs)
            ELSE IF InSeq(data_id, missing_decoders)
            THEN read_loop(r.s, Append(warns, data_id), Append(debugs, data_id),
                           fuel - 1)
            ELSE IF data_id \in DOMAIN rbl_id_dict
            THEN ReadOut(r, TRUE, warns, Append(debugs, data_id))
            ELSE read_loop(r.s, warns, Append(debugs, data_id), fuel - 1)
        loaded(r) == packet(r, get_data_id(r.s.buffer[1], FALSE))
    IN IF fuel = 0 THEN ReadOut(Out(s, "hang", "None", 0), FALSE, warns, debugs)
       ELSE loaded(load_packet(s, FALSE, 0, 0, TRUE))

\* a read_packet that hands the decoder's answer back as its own
read_packet_returns_decode_result(s, decode_result) ==
    LET done(r) ==
            IF r.dec
            THEN [r EXCEPT !.ret = IF decode_result THEN "True" ELSE "False"]
            ELSE r
    IN done(read_loop(s, <<>>, <<>>, Fuel))

\* decode_result is what the decoder's decode_packet returns for the packet
read_packet(s, decode_result) ==
    LET done(r) == IF r.dec THEN [r EXCEPT !.ret = "True"] ELSE r
    IN done(read_loop(s, <<>>, <<>>, Fuel))

(***************************************************************************)
(* is_orca_stream.  A file is its name's ending, whether its bytes are a   *)
(* gzip stream, the number of bytes a read can deliver, its first two      *)
(* words as np.frombuffer(dtype="uint32") gives them (two's complement,    *)
(* as the packet words above) and its bytes 8..11.                         *)
(***************************************************************************)
\* uint32 minus uint32, wrapping modulo 2^32, on two's complement values
Sub32(a, b) ==
    IF b < 0 /\ a > MaxInt32 + b
    THEN ((a - MaxInt32) - 1) - ((b + MaxInt32) + 1)
    ELSE IF b > 0 /\ a < ((0 - MaxInt32) - 1) + b
    THEN ((a + MaxInt32) + 1) - ((b - MaxInt32) - 1)
    ELSE a - b

\* in_stream.read(12) on the stream set_in_stream opened: a file named
\* *.gz is read through gzip, which refuses bytes that are no gzip stream
first_bytes(f) ==
    IF f.name_gz /\ ~f.gzip_ok /\ f.n_bytes > 0
    THEN [err |-> "BadGzipFile", len |-> 0]
    ELSE [err |-> "none", len |-> Min(12, f.n_bytes)]

\* uints[0] & 0xFFFC0000 is not zero
top_fourteen_bits_set(w0) == w0 < 0 \/ w0 - (w0 % NWordsModulus) # 0

\* pad = uints[0] * 4 - 8 - uints[1]; pad < 0 or pad > 3, for a first word
\* below 2^18.  With weak_scalars the three operations stay in uint32 and
\* wrap; otherwise uint32 * 4 is an int64 and the result is exact.
pad_out_of_range(w0, w1, weak) ==
    IF weak
    THEN Sub32(Sub32(w0 * 4, 8), w1) \notin 0..3
    ELSE IF w1 < 0 THEN TRUE
    ELSE (w0 * 4 - 8) - w1 < 0 \/ (w0 * 4 - 8) - w1 > 3

\* b is a UTF-8 continuation byte in lo..hi
Cont(bs, i, lo, hi) == i <= Len(bs) /\ bs[i] >= lo /\ bs[i] <= hi

\* bytes.decode() succeeds on bs from byte i on
RECURSIVE utf8_valid(_, _)
utf8_valid(bs, i) ==
    IF i > Len(bs) THEN TRUE
    ELSE IF bs[i] < 128 THEN utf8_valid(bs, i + 1)
    ELSE IF bs[i] >= 194 /\ bs[i] <= 223
    THEN Cont(bs, i + 1, 128, 191) /\ utf8_valid(bs, i + 2)
    ELSE IF bs[i] >= 224 /\ bs[i] <= 239
    THEN /\ Cont(bs, i + 1, IF bs[i] = 224 THEN 160 ELSE 128,
                             IF bs[i] = 237 THEN 159 ELSE 191)
         /\ Cont(bs, i + 2, 128, 191)
         /\ utf8_valid(bs, i + 3)
    ELSE IF bs[i] >= 240 /\ bs[i] <= 244
    THEN /\ Cont(bs, i + 1, IF bs[i] = 240 THEN 144 ELSE 128,
                             IF bs[i] = 244 THEN 143 ELSE 191)
         /\ Cont(bs, i + 2, 128, 191)
         /\ Cont(bs, i + 3, 128, 191)
         /\ utf8_valid(bs, i + 4)
    ELSE FALSE

\* the bytes of "<?xm"
XmlTag == << 60, 63, 120, 109 >>

\* what is_orca_stream hands back, and the streams it leaves open
ProbeOut(err, ret, open) == [op |-> "is_orca_stream", err |-> err, ret |-> ret,
                             open |-> open]

is_orca_stream(f, weak) ==
    LET read(b) ==
            IF b.err # "none" THEN ProbeOut(b.err, "None", 1)
            ELSE IF b.len # 12 THEN ProbeOut("none", "False", 0)
            ELSE IF top_fourteen_bits_set(f.w0) THEN ProbeOut("none", "False", 0)
            ELSE IF pad_out_of_range(f.w0, f.w1, weak)
            THEN ProbeOut("none", "False", 0)
            ELSE IF ~utf8_valid(f.tag, 1)
            THEN ProbeOut("UnicodeDecodeError", "None", 0)
            ELSE IF f.tag # XmlTag THEN ProbeOut("none", "False", 0)
            ELSE ProbeOut("none", "True", 0)
    IN read(first_bytes(f))

\* the files is_orca_stream is tried on
FileLengths == {0, 8, 11, 12, 13}
FirstWord0 == {0, 1, 2, 3, 196613, NWordsModulus, 0 - 1}
FirstWord1 == {0, 1, 4, 5, 0 - 4, 0 - 7, 0 - 8}
Tags == { XmlTag, << 109, 120, 63, 60 >>, << 255, 255, 255, 255 >>,
          << 195, 169, 60, 63 >>, << 60, 63, 120, 195 >> }
Files ==
    { [name_gz |-> g[1], gzip_ok |-> g[2], n_bytes |-> n, w0 |-> a, w1 |-> b,
       tag |-> tg] :
        g \in {<<FALSE, FALSE>>, <<TRUE, FALSE>>, <<TRUE, TRUE>>},
        n \in FileLengths, a \in FirstWord0, b \in FirstWord1, tg \in Tags }

NoProbe == [op |-> "none", err |-> "none", ret |-> "None", open |-> 0]

\* no file has been probed
ProbeIdle ==
    /\ file = [name_gz |-> FALSE, gzip_ok |-> FALSE, n_bytes |-> 0, w0 |-> 0,
               w1 |-> 0, tag |-> XmlTag]
    /\ weak_scalars = FALSE
    /\ probe_open = 0
    /\ probe_last = NoProbe

(***************************************************************************)
(* RawBuffer: a table of cap rows and the offset loc of the next row to    *)
(* write.  Rows are counted from 1 here, so row loc + 1 is written next.   *)
(***************************************************************************)
MaxRows == 5           \* a RawBuffer has at most this many rows
MaxFcPackets == 6      \* at most this many packets are decoded

NoRow == [channel |-> 0 - 1, packet_id |-> 0 - 1, status |-> 0 - 1]

RawBuffer(cap, fill_safety) ==
    [cap |-> cap, fill_safety |-> fill_safety, loc |-> 0,
     rows |-> [i \in 1..cap |-> NoRow]]

\* RawBuffer.is_full(): the fill offset is at or beyond the table's capacity
is_full(rb) == rb.loc >= rb.cap

\* what a decode_packet hands back: the buffer, the error and the result
FcOut(rb, err, ret) == [rb |-> rb, err |-> err, ret |-> ret]

(***************************************************************************)
(* FCStatusDecoder.decode_packet                                           *)
(***************************************************************************)
\* a decode_packet that reports full one row late
status_decode_packet_full_late(rb, status) ==
    IF rb.loc >= rb.cap THEN FcOut(rb, "IndexError", FALSE)
    ELSE FcOut([rb EXCEPT !.rows[rb.loc + 1] = [NoRow EXCEPT !.status = status],
                          !.loc = rb.loc + 1],
               "none", rb.loc + 1 > rb.cap)

\* tbl[...].nda[ii] = ... raises IndexError at ii = len(tbl); otherwise the
\* row is written, loc grows by one and the result is loc >= len(tbl)
status_decode_packet(rb, status) ==
    IF rb.loc >= rb.cap THEN FcOut(rb, "IndexError", FALSE)
    ELSE FcOut([rb EXCEPT !.rows[rb.loc + 1] = [NoRow EXCEPT !.status = status],
                          !.loc = rb.loc + 1],
               "none", rb.loc + 1 >= rb.cap)

NoDecode == [op |-> "none", err |-> "none", ret |-> FALSE, before |-> <<>>]

(***************************************************************************)
(* FCEventDecoder.decode_packet                                            *)
(***************************************************************************)
EventRow(iwf, pid) ==
    [channel |-> iwf, packet_id |-> pid, status |-> 0 - 1]

\* what the loop over the traces works on
EvAcc(pool, skipped, log) ==
    [rbs |-> pool, skipped |-> skipped, log |-> log, any_full |-> FALSE,
     err |-> "none"]

\* a loop whose result is the fullness of the buffer written last
RECURSIVE event_decode_loop_last_full(_, _, _, _, _)
event_decode_loop_last_full(acc, rbkd, trace_list, idx, pid) ==
    LET write(b, iwf) ==
            IF acc.rbs[b].loc >= acc.rbs[b].cap
            THEN [acc EXCEPT !.err = "IndexError"]
            ELSE event_decode_loop_last_full(
                     [acc EXCEPT
                        !.rbs[b].rows[acc.rbs[b].loc + 1] =
                            EventRow(iwf, pid),
                        !.rbs[b].loc = @ + 1,
                        !.any_full =
                            is_full([acc.rbs[b] EXCEPT !.loc = @ + 1])],
                     rbkd, trace_list, idx + 1, pid)
        step(iwf) ==
            IF iwf \notin DOMAIN rbkd
            THEN event_decode_loop_last_full(
                     [acc EXCEPT
                        !.log = IF iwf \in DOMAIN acc.skipped THEN @
                                ELSE Append(@, iwf),
                        !.skipped = IF iwf \in DOMAIN @
                                    THEN [@ EXCEPT ![iwf] = @ + 1]
                                    ELSE (iwf :> 1) @@ @],
                     rbkd, trace_list, idx + 1, pid)
            ELSE write(rbkd[iwf], iwf)
    IN IF idx > Len(trace_list) THEN acc ELSE step(trace_list[idx])

\* a loop that logs every trace it drops
RECURSIVE event_decode_loop_logs_each(_, _, _, _, _)
event_decode_loop_logs_each(acc, rbkd, trace_list, idx, pid) ==
    LET write(b, iwf) ==
            IF acc.rbs[b].loc >= acc.rbs[b].cap
            THEN [acc EXCEPT !.err = "IndexError"]
            ELSE event_decode_loop_logs_each(
                     [acc EXCEPT
                        !.rbs[b].rows[acc.rbs[b].loc + 1] =
                            EventRow(iwf, pid),
                        !.rbs[b].loc = @ + 1,
                        !.any_full =
                            @ \/ is_full([acc.rbs[b] EXCEPT !.loc = @ + 1])],
                     rbkd, trace_list, idx + 1, pid)
        step(iwf) ==
            IF iwf \notin DOMAIN rbkd
            THEN event_decode_loop_logs_each(
                     [acc EXCEPT
                        !.log = Append(@, iwf),
                        !.skipped = IF iwf \in DOMAIN @
                                    THEN [@ EXCEPT ![iwf] = @ + 1]
                                    ELSE (iwf :> 1) @@ @],
                     rbkd, trace_list, idx + 1, pid)
            ELSE write(rbkd[iwf], iwf)
    IN IF idx > Len(trace_list) THEN acc ELSE step(trace_list[idx])

\* a loop that records the place of the trace in the list as its channel
RECURSIVE event_decode_loop_idx_channel(_, _, _, _, _)
event_decode_loop_idx_channel(acc, rbkd, trace_list, idx, pid) ==
    LET write(b, iwf) ==
            IF acc.rbs[b].loc >= acc.rbs[b].cap
            THEN [acc EXCEPT !.err = "IndexError"]
            ELSE event_decode_loop_idx_channel(
                     [acc EXCEPT
                        !.rbs[b].rows[acc.rbs[b].loc + 1] =
                            EventRow(idx - 1, pid),
                        !.rbs[b].loc = @ + 1,
                        !.any_full =
                            @ \/ is_full([acc.rbs[b] EXCEPT !.loc = @ + 1])],
                     rbkd, trace_list, idx + 1, pid)
        step(iwf) ==
            IF iwf \notin DOMAIN rbkd
            THEN event_decode_loop_idx_channel(
                     [acc EXCEPT
                        !.log = IF iwf \in DOMAIN acc.skipped THEN @
                                ELSE Append(@, iwf),
                        !.skipped = IF iwf \in DOMAIN @
                                    THEN [@ EXCEPT ![iwf] = @ + 1]
                                    ELSE (iwf :> 1) @@ @],
                     rbkd, trace_list, idx + 1, pid)
            ELSE write(rbkd[iwf], iwf)
    IN IF idx > Len(trace_list) THEN acc ELSE step(trace_list[idx])

\* the loop "for idx in range(fcio.event.num_traces)", from trace idx on
\* (counted from 1)
RECURSIVE event_decode_loop(_, _, _, _, _)
event_decode_loop(acc, rbkd, trace_list, idx, pid) ==
    LET write(b, iwf) ==
            IF acc.rbs[b].loc >= acc.rbs[b].cap
            THEN [acc EXCEPT !.err = "IndexError"]
            ELSE event_decode_loop(
                     [acc EXCEPT
                        !.rbs[b].rows[acc.rbs[b].loc + 1] =
                            EventRow(iwf, pid),
                        !.rbs[b].loc = @ + 1,
                        !.any_full =
                            @ \/ is_full([acc.rbs[b] EXCEPT !.loc = @ + 1])],
                     rbkd, trace_list, idx + 1, pid)
        step(iwf) ==
            IF iwf \notin DOMAIN rbkd
            THEN event_decode_loop(
                     [acc EXCEPT
                        !.log = IF iwf \in DOMAIN acc.skipped THEN @
                                ELSE Append(@, iwf),
                        !.skipped = IF iwf \in DOMAIN @
                                    THEN [@ EXCEPT ![iwf] = @ + 1]
                                    ELSE (iwf :> 1) @@ @],
                     rbkd, trace_list, idx + 1, pid)
            ELSE write(rbkd[iwf], iwf)
    IN IF idx > Len(trace_list) THEN acc ELSE step(trace_list[idx])

\* decode_packet(fcio, evt_rbkd, packet_id = pid): the buffers, skipped_channels
\* and the log afterwards, with the error raised or the result returned
event_decode_packet(pool, rbkd, skipped, log, trace_list, pid) ==
    event_decode_loop(EvAcc(pool, skipped, log), rbkd, trace_list, 1, pid)

\* decoder.get_max_rows_in_packet()
get_max_rows_in_packet(config) == config.nadcs

\* no event decoder has been used
EventIdle ==
    /\ fc_config = [nadcs |-> 1, nsamples |-> 1]
    /\ rbs = <<>>
    /\ evt_rbkd = <<>>
    /\ skipped_channels = <<>>
    /\ debug_log = <<>>
    /\ events = <<>>

(***************************************************************************)
(* The schema of FCEventDecoder: the module's default fc_decoded_values    *)
(* and the decoded_values of each decoder object.  A schema is kept by     *)
(* the entries the code changes: waveform.wf_len, tracelist.length_guess   *)
(* and the optional packet_id.hdf5_settings.                               *)
(***************************************************************************)
fc_decoded_values ==
    [wf_len |-> 65532, length_guess |-> 16, hdf5_settings |-> "none"]

\* a constructor that keeps the module's dict as its decoded_values
deepcopy_alias(h, ref) == [heap |-> h, ref |-> ref]

\* copy.deepcopy(h[ref]): the heap with the new dict, and the new dict
deepcopy(h, ref) == [heap |-> Append(h, h[ref]), ref |-> Len(h) + 1]

\* FCEventDecoder.__init__: the heap and the new decoder
new_event_decoder(h) ==
    LET made(c) == [heap |-> c.heap,
                    decoder |-> [decoded_values |-> c.ref, fc_config |-> "None"]]
    IN made(deepcopy(h, 1))

\* set_file_config(fc_config) on decoder d: the heap and the decoder
set_file_config(h, d, config) ==
    [heap |-> [h EXCEPT ![d.decoded_values].wf_len = config.nsamples,
                        ![d.decoded_values].length_guess = config.nadcs],
     decoder |-> [d EXCEPT !.fc_config = config]]

\* decoder.get_decoded_values()
get_decoded_values(h, d) == h[d.decoded_values]

NoSchemaOp == [op |-> "none", d |-> 0]

\* no decoder object has been made
SchemaIdle ==
    /\ heap = << fc_decoded_values >>
    /\ decoders = <<>>
    /\ schema_last = NoSchemaOp

\* no FlashCam decoder has been used
FcIdle ==
    /\ status_rb = RawBuffer(1, 1)
    /\ fc_packet_id = 0
    /\ fc_last = NoDecode
    /\ EventIdle
    /\ SchemaIdle

(***************************************************************************)
(* The state after construction: a streamer that has opened nothing, and   *)
(* the file it is going to read.                                           *)
(***************************************************************************)
Tails == {0, 2}

\* a stream starts with a header packet, or with a word open_stream refuses
FirstWords == {HeaderWord, LongWord(IdAbsent, 2), 0}
BodyWords ==
    { LongWord(IdBound, 2), ShortWord(IdBound),
      LongWord(IdMissing, 1), LongWord(IdNoBuffer, 1), LongWord(IdAbsent, 2),
      0 }
Streams ==
    { <<>> } \cup { <<w>> \o q : w \in FirstWords,
                                q \in SeqsUpTo(BodyWords, MaxWords - 1) }

NoCall == [op |-> "none", err |-> "none", ret |-> "None", n |-> 0,
           dec |-> FALSE, decode_result |-> FALSE, rbs |-> <<>>]

Call(op, r, dec, decode_result) ==
    [op |-> op, err |-> r.err, ret |-> r.ret, n |-> r.n, dec |-> dec,
     decode_result |-> decode_result, rbs |-> <<>>]

\* the fields of a streamer that has opened nothing
NewStreamer ==
    /\ in_stream = "None"
    /\ pos = 0
    /\ packet_id = -1
    /\ packet_locs = <<>>
    /\ n_bytes_read = 0
    /\ buffer = [j \in 1..BufferLen0 |-> 0]
    /\ header = "None"
    /\ decoder_id_dict = <<>>
    /\ rbl_id_dict = <<>>
    /\ missing_decoders = <<>>
    /\ any_full = FALSE
    /\ sequential = FALSE
    /\ decoded = <<>>
    /\ warned = <<>>
    /\ debugged = <<>>
    /\ hung = FALSE
    /\ last = NoCall

Init ==
    /\ stream \in Streams
    /\ tail \in Tails
    /\ tail > 0 => Len(stream) < MaxWords
    /\ NewStreamer
    /\ ProbeIdle
    /\ FcIdle

\* the streamer's fields after an operation that ended in state r.s
Store(r) ==
    /\ pos' = r.s.pos
    /\ packet_id' = r.s.packet_id
    /\ packet_locs' = r.s.packet_locs
    /\ n_bytes_read' = r.s.n_bytes_read
    /\ buffer' = r.s.buffer
    /\ hung' = (r.err = "hang")

\* the caller works on a stream that open_stream has opened; an index with
\* more entries than the stream has words is not explored any further
Running ==
    /\ ~hung /\ in_stream = "open" /\ header # "None"
    /\ Len(packet_locs) <= Len(stream)

\* a call other than read_packet ends the sequential read run
EndRun ==
    /\ sequential' = FALSE
    /\ decoded' = <<>>
    /\ warned' = <<>>
    /\ debugged' = <<>>

\* the decoder names of the header that the caller's buffer library, which
\* has no "*" entry, holds as well
decoder_names ==
    {IdToDecName[k] : k \in DOMAIN IdToDecName} \cap RbLib

\* a decoder object: the serial tells the objects of one class apart
Decoder(name, serial) == [name |-> name, serial |-> serial]

\* what open_stream's loop over the header's ids starts from
NoDecoders ==
    [instantiated |-> ("OrcaHeaderDecoder" :> Decoder("OrcaHeaderDecoder", 0)),
     dict |-> decoder_id_dict, missing |-> missing_decoders, made |-> 0]

\* a loop that makes a decoder object for every id of an implemented type
RECURSIVE instantiate_decoders_per_id(_, _)
instantiate_decoders_per_id(i, acc) ==
    LET bind(data_id, name) ==
            IF name \notin DOMAIN acc.instantiated /\ name \notin Implemented
            THEN instantiate_decoders_per_id(
                     i + 1, [acc EXCEPT !.missing = Append(@, data_id)])
            ELSE instantiate_decoders_per_id(
                     i + 1,
                     [instantiated |->
                          (name :> Decoder(name, acc.made + 1))
                              @@ acc.instantiated,
                      dict |-> (data_id :> Decoder(name, acc.made + 1))
                                   @@ acc.dict,
                      missing |-> acc.missing,
                      made |-> acc.made + 1])
    IN IF i > Len(HeaderIds) THEN acc
       ELSE bind(HeaderIds[i], IdToDecName[HeaderIds[i]])

\* a loop that also registers a decoder for an id whose type has no
\* implementation
RECURSIVE instantiate_decoders_registers_missing(_, _)
instantiate_decoders_registers_missing(i, acc) ==
    LET bind(data_id, name) ==
            IF name \in DOMAIN acc.instantiated
            THEN instantiate_decoders_registers_missing(
                     i + 1,
                     [acc EXCEPT !.dict = (data_id :> acc.instantiated[name])
                                              @@ @])
            ELSE instantiate_decoders_registers_missing(
                     i + 1,
                     [instantiated |->
                          (name :> Decoder(name, acc.made + 1))
                              @@ acc.instantiated,
                      dict |-> (data_id :> Decoder(name, acc.made + 1))
                                   @@ acc.dict,
                      missing |-> IF name \notin Implemented
                                  THEN Append(acc.missing, data_id)
                                  ELSE acc.missing,
                      made |-> acc.made + 1])
    IN IF i > Len(HeaderIds) THEN acc
       ELSE bind(HeaderIds[i], IdToDecName[HeaderIds[i]])

\* open_stream's loop over the ids of the header, from the i-th on
RECURSIVE instantiate_decoders(_, _)
instantiate_decoders(i, acc) ==
    LET bind(data_id, name) ==
            IF name \in DOMAIN acc.instantiated
            THEN instantiate_decoders(
                     i + 1,
                     [acc EXCEPT !.dict = (data_id :> acc.instantiated[name])
                                              @@ @])
            ELSE IF name \notin Implemented
            THEN instantiate_decoders(
                     i + 1, [acc EXCEPT !.missing = Append(@, data_id)])
            ELSE instantiate_decoders(
                     i + 1,
                     [instantiated |->
                          (name :> Decoder(name, acc.made + 1))
                              @@ acc.instantiated,
                      dict |-> (data_id :> Decoder(name, acc.made + 1))
                                   @@ acc.dict,
                      missing |-> acc.missing,
                      made |-> acc.made + 1])
    IN IF i > Len(HeaderIds) THEN acc
       ELSE bind(HeaderIds[i], IdToDecName[HeaderIds[i]])

\* what header_decoder.decode_packet returns: the header's one-row buffer
\* is handed back by open_stream itself and does not count as a full buffer
header_decode_result == FALSE

\* a header buffer open_stream hands back without marking it filled
header_rb_list_unfilled ==
    LET rb == [lgdo |-> "OrcaHeaderDecoder", loc |-> 0]
    IN << [rb EXCEPT !.lgdo = "header"] >>

\* the list open_stream returns: the header decoder's buffer, which the
\* caller's library does not hold, with the header as its value
header_rb_list ==
    LET rb == [lgdo |-> "OrcaHeaderDecoder", loc |-> 0]
    IN << [rb EXCEPT !.lgdo = "header", !.loc = 1] >>

open_stream_packet ==
    load_packet([St EXCEPT !.pos = 0, !.n_bytes_read = 0, !.packet_id = -1],
                FALSE, 0, 0, FALSE)

OpenStream ==
    /\ ~hung /\ in_stream = "None" /\ header = "None"
    /\ in_stream' = "open"
    /\ \E r \in {open_stream_packet}, d \in {instantiate_decoders(1, NoDecoders)} :
       LET ok == r.err = "none" /\ r.ret = "packet"
                 /\ get_data_id(r.s.buffer[1], TRUE) = 0
       IN /\ Store(r)
          /\ any_full' = IF ok THEN (any_full \/ header_decode_result)
                          ELSE any_full
          /\ last' = [Call("open_stream",
                           IF r.err = "none" /\ ~ok
                           THEN Out(r.s, "RuntimeError", "None", 0)
                           ELSE r,
                           ok, ok /\ header_decode_result)
                          EXCEPT !.rbs = IF ok THEN header_rb_list ELSE <<>>]
          /\ header' = IF ok THEN "header" ELSE header
          /\ sequential' = ok
          /\ decoder_id_dict' = IF ok THEN d.dict ELSE decoder_id_dict
          /\ missing_decoders' = IF ok THEN d.missing ELSE missing_decoders
          /\ rbl_id_dict' =
                IF ok
                THEN [k \in {i \in DOMAIN d.dict : IdToDecName[i] \in RbLib}
                        |-> IdToDecName[k]]
                ELSE rbl_id_dict
    /\ UNCHANGED << stream, tail, decoded, warned, debugged >>
    /\ UNCHANGED outside_streamer

Registry == << header, decoder_id_dict, rbl_id_dict, missing_decoders >>

LoadPacket ==
    /\ Running
    /\ \E has_index \in BOOLEAN, index \in -1..MaxWords, whence \in 0..3,
          skip_unknown_ids \in BOOLEAN :
         /\ has_index \/ (index = 0 /\ whence \in {0, 3})
         /\ ~has_index \/ ~skip_unknown_ids
         /\ whence = 0 \/ index <= 1
         /\ whence # 3 \/ index = 0
         /\ \E r \in {load_packet(St, has_index, index, whence, skip_unknown_ids)} :
               /\ Store(r)
               /\ last' = Call("load_packet", r, FALSE, FALSE)
    /\ EndRun
    /\ UNCHANGED << stream, tail, in_stream, Registry, any_full >>
    /\ UNCHANGED outside_streamer

SkipPacket ==
    /\ Running
    /\ \E n \in -1..2 :
         \E r \in {skip_packet(St, n)} :
            /\ Store(r)
            /\ last' = Call("skip_packet", r, FALSE, FALSE)
    /\ EndRun
    /\ UNCHANGED << stream, tail, in_stream, Registry, any_full >>
    /\ UNCHANGED outside_streamer

BuildPacketLocs ==
    /\ Running
    /\ \E saveloc \in BOOLEAN :
         \E r \in {build_packet_locs(St, saveloc)} :
            /\ Store(r)
            /\ last' = Call("build_packet_locs", r, FALSE, FALSE)
    /\ EndRun
    /\ UNCHANGED << stream, tail, in_stream, Registry, any_full >>
    /\ UNCHANGED outside_streamer

CountPackets ==
    /\ Running
    /\ \E saveloc \in BOOLEAN :
         \E r \in {count_packets(St, saveloc)} :
            /\ Store(r)
            /\ last' = Call("count_packets", r, FALSE, FALSE)
    /\ EndRun
    /\ UNCHANGED << stream, tail, in_stream, Registry, any_full >>
    /\ UNCHANGED outside_streamer

ReadPacket ==
    /\ Running
    /\ \E decode_result \in BOOLEAN :
         \E r \in {read_packet(St, decode_result)} :
            /\ Store(r)
            /\ r.dec \/ ~decode_result
            /\ any_full' = IF r.dec THEN (any_full \/ decode_result) ELSE any_full
            /\ decoded' = IF sequential /\ r.dec
                          THEN Append(decoded, r.s.packet_id) ELSE decoded
            /\ warned' = IF sequential THEN warned \o r.warns ELSE warned
            /\ debugged' = IF sequential THEN debugged \o r.debugs ELSE debugged
            /\ last' = Call("read_packet", r, r.dec, decode_result)
    /\ UNCHANGED << stream, tail, in_stream, Registry, sequential >>
    /\ UNCHANGED outside_streamer

Next ==
    \/ OpenStream
    \/ LoadPacket
    \/ SkipPacket
    \/ BuildPacketLocs
    \/ CountPackets
    \/ ReadPacket

Spec == Init /\ [][Next]_vars

(***************************************************************************)
(* What the stream holds, read off the words alone.                        *)
(***************************************************************************)
\* the packets starting at word i (counted from 1) all declare at least
\* their own header word
RECURSIVE Framed(_)
Framed(i) ==
    \/ i > Len(stream)
    \/ /\ get_n_words(stream[i]) >= 1
       /\ Framed(i + get_n_words(stream[i]))

\* ... and each of them is in the stream with all its words
RECURSIVE Complete(_)
Complete(i) ==
    \/ i = Len(stream) + 1
    \/ /\ i <= Len(stream)
       /\ get_n_words(stream[i]) >= 1
       /\ Complete(i + get_n_words(stream[i]))

\* a stream of complete packets and nothing else
WellFormed == tail = 0 /\ Complete(1)

\* the byte offsets of the packets of a well-formed stream from word i on
RECURSIVE Offsets(_)
Offsets(i) ==
    IF i > Len(stream) \/ get_n_words(stream[i]) < 1 THEN << >>
    ELSE << 4 * (i - 1) >> \o Offsets(i + get_n_words(stream[i]))

NPackets == Len(Offsets(1))

\* the header word of packet number k (counted from 0)
HeaderOf(k) == stream[Offsets(1)[k + 1] \div 4 + 1]

\* the words of packet number k
PacketWords(k) ==
    SubSeq(stream, Offsets(1)[k + 1] \div 4 + 1,
           Offsets(1)[k + 1] \div 4 + get_n_words(HeaderOf(k)))

Opened == in_stream = "open" /\ header # "None" /\ ~hung

(***************************************************************************)
(* C1: in every reachable state, whatever the stream holds, the recorded   *)
(* offsets are strictly increasing: packet_locs[i] < packet_locs[j] for    *)
(* all i < j.                                                              *)
(***************************************************************************)
C1_StrictlyIncreasing ==
    \A i, j \in 1..Len(packet_locs) : i < j => packet_locs[i] < packet_locs[j]

(***************************************************************************)
(* C2: packet_locs[i] is the byte offset of packet number i: the first     *)
(* entry is 0 and each further entry is the one before plus four times the *)
(* word count of that packet (1 for a short packet).  Stated for streams   *)
(* whose packet headers all declare at least their own word.               *)
(***************************************************************************)
C2_IndexIsPacketOffsets ==
    Framed(1) =>
        /\ Len(packet_locs) > 0 => packet_locs[1] = 0
        /\ \A i \in 1..(Len(packet_locs) - 1) :
             /\ packet_locs[i] \div 4 + 1 <= Len(stream)
             /\ packet_locs[i + 1] =
                  packet_locs[i]
                  + 4 * get_n_words(stream[packet_locs[i] \div 4 + 1])

\* an index of three packets after a skip: a short one among them, and a
\* two-word one before the last
C2_Witness ==
    /\ Framed(1) /\ Len(packet_locs) = 3
    /\ \E i \in 1..3 : is_short(stream[packet_locs[i] \div 4 + 1])
    /\ \E i \in 1..2 : get_n_words(stream[packet_locs[i] \div 4 + 1]) = 2
    /\ last.op = "skip_packet"

(***************************************************************************)
(* The sequential read run: read_packet called again and again after       *)
(* open_stream.                                                            *)
(***************************************************************************)
Count(q, x) == Cardinality({i \in 1..Len(q) : q[i] = x})

IdOf(k) == get_data_id(HeaderOf(k), FALSE)

\* packet k has a registered decoder and a bound RawBufferList
Usable(k) == IdOf(k) \in DOMAIN decoder_id_dict /\ IdOf(k) \in DOMAIN rbl_id_dict

\* the usable packets among packets 1..k, in stream order
RECURSIVE UsableUpTo(_)
UsableUpTo(k) ==
    IF k < 1 THEN << >>
    ELSE IF Usable(k) THEN Append(UsableUpTo(k - 1), k) ELSE UsableUpTo(k - 1)

\* the data ids of packets a..b, in stream order
RECURSIVE IdsOf(_, _)
IdsOf(a, b) == IF a > b THEN << >> ELSE << IdOf(a) >> \o IdsOf(a + 1, b)

\* this step is a read_packet call that returned
ReadStep == last'.op = "read_packet" /\ last'.err = "none"

(***************************************************************************)
(* C3 as stated: read_packet returns the boolean decode_packet produced    *)
(* for the packet it decoded.                                              *)
(***************************************************************************)
C3_ReturnsDecodeResult ==
    last.op = "read_packet" /\ last.dec
        => (last.ret = "True") = last.decode_result

(***************************************************************************)
(* C3 amended: read_packet returns True whenever it decoded a packet,      *)
(* whatever decode_packet answered; that answer is or-ed into any_full.    *)
(* It returns False only when the end of the stream was reached without    *)
(* decoding a packet.                                                      *)
(***************************************************************************)
C3_ReturnsTrueAndKeepsAnyFull ==
    [][ReadStep =>
          /\ last'.ret \in {"True", "False"}
          /\ (last'.ret = "True") = last'.dec
          /\ last'.dec => any_full' = (any_full \/ last'.decode_result)
          /\ ~last'.dec => any_full' = any_full /\ pos' >= Size]_vars

\* a decoded packet whose decoder answered "no buffer is full"
C3_Witness ==
    /\ last.op = "read_packet" /\ last.dec /\ ~last.decode_result
    /\ last.ret = "True" /\ ~any_full

(***************************************************************************)
(* C4: over a whole sequential run, exactly one log record is emitted for  *)
(* a destination id with a missing decoder, however many packets carry it. *)
(***************************************************************************)
C4_WarnedOncePerId ==
    sequential /\ WellFormed /\ last.op = "read_packet" /\ last.ret = "False"
        => \A k \in 1..(NPackets - 1) :
             InSeq(IdOf(k), missing_decoders) => Count(warned, IdOf(k)) = 1

(***************************************************************************)
(* C5: in a sequential run over a stream of complete packets, the packets  *)
(* handed to decode_packet are exactly the packets with a registered       *)
(* decoder and a bound RawBufferList, each once and in stream order; no    *)
(* call raises, and the run ends at the end of the stream.                 *)
(***************************************************************************)
C5_DecodesExactlyUsable ==
    sequential /\ WellFormed
        => /\ last.err = "none"
           /\ decoded = UsableUpTo(packet_id)
           /\ last.op = "read_packet" /\ last.ret = "False"
                => packet_id = NPackets - 1

\* a finished run that decoded two packets and passed over a packet whose
\* decoder is missing or has no buffer list
C5_Witness ==
    /\ sequential /\ WellFormed
    /\ last.op = "read_packet" /\ last.ret = "False"
    /\ Len(decoded) = 2
    /\ \E k \in 1..(NPackets - 1) :
         \/ InSeq(IdOf(k), missing_decoders)
         \/ IdOf(k) \in DOMAIN decoder_id_dict \ DOMAIN rbl_id_dict

\* packet k is a long packet whose id the header's mapping does not list
AbsentLong(k) == ~is_short(HeaderOf(k)) /\ ~InSeq(IdOf(k), HeaderIds)

\* this step is a read_packet call of a sequential run over complete packets
\* that met a long packet of an id absent from the header
MeetsAbsent ==
    /\ ReadStep /\ sequential /\ WellFormed
    /\ \E k \in (packet_id + 1)..packet_id' : AbsentLong(k)

(***************************************************************************)
(* C6 as stated: the read_packet call that meets a long packet of an id D  *)
(* absent from the header's mapping returns at that packet with nothing    *)
(* decoded, D is logged once, and the next call handles the next packet.   *)
(***************************************************************************)
C6_ReturnsAtAbsentId ==
    [][MeetsAbsent =>
          \A k \in (packet_id + 1)..packet_id' :
             AbsentLong(k) => /\ packet_id' = k
                              /\ ~last'.dec
                              /\ Len(debugged') = Len(debugged) + 1]_vars

(***************************************************************************)
(* C6 amended: the read_packet call that meets such a packet does not      *)
(* return at it.  It passes over the packet (no decoder gets it, no        *)
(* warning names D, one debug record per packet met) and goes on in the    *)
(* same call: it returns True having decoded the next packet that has a    *)
(* decoder and a bound buffer list, or False at the end of the stream.     *)
(***************************************************************************)
C6_SkipsAbsentIdInSameCall ==
    [][MeetsAbsent =>
          /\ debugged' = debugged \o IdsOf(packet_id + 1, packet_id')
          /\ \A k \in (packet_id + 1)..packet_id' :
                AbsentLong(k) => ~InSeq(IdOf(k), warned') /\ ~InSeq(k, decoded')
          /\ \A k \in (packet_id + 1)..(packet_id' - 1) : ~Usable(k)
          /\ IF last'.dec
             THEN /\ last'.ret = "True" /\ Usable(packet_id')
                  /\ decoded' = Append(decoded, packet_id')
             ELSE /\ last'.ret = "False" /\ packet_id' = NPackets - 1
                  /\ ~Usable(packet_id') /\ decoded' = decoded]_vars

\* the first read_packet call passed over a two-word packet of an absent id
\* and decoded the packet after it
C6_Witness ==
    /\ sequential /\ WellFormed
    /\ last.op = "read_packet" /\ last.dec /\ decoded = << packet_id >>
    /\ packet_id = 2 /\ AbsentLong(1) /\ get_n_words(HeaderOf(1)) = 2
    /\ debugged = IdsOf(1, 2)

(***************************************************************************)
(* Random access: load_packet with an index, applied to the state reached. *)
(***************************************************************************)
\* the words load_packet hands back: the view buffer[:n_words]
Packet(r) == SubSeq(r.s.buffer, 1, r.n)

\* load_packet returned a packet
Loaded(r) == r.err = "none" /\ r.ret = "packet"

\* load_packet returned None without raising
NoPacket(r) == r.err = "none" /\ r.ret = "None"

(***************************************************************************)
(* C7: after load_packet(k, whence=0) has returned packet k, an            *)
(* immediately following load_packet(0, whence=1) returns the same packet  *)
(* k with identical words.                                                 *)
(***************************************************************************)
C7_CurrentRelativeZeroIsSamePacket ==
    Opened =>
        \A k \in 0..MaxWords :
            LET r1 == load_packet(St, TRUE, k, 0, FALSE)
                r2 == load_packet(r1.s, TRUE, 0, 1, FALSE)
            IN Loaded(r1) =>
                  /\ Loaded(r2)
                  /\ r2.s.packet_id = k
                  /\ Packet(r2) = Packet(r1)

(***************************************************************************)
(* C8: on a stream of N complete packets load_packet(-j, whence=2) builds  *)
(* the full index and returns packet number N-j, for every 1 <= j <= N.    *)
(***************************************************************************)
C8_EndRelativeFollowsSeek ==
    Opened /\ WellFormed =>
        \A j \in 1..NPackets :
            LET r == load_packet(St, TRUE, -j, 2, FALSE)
            IN /\ Loaded(r)
               /\ r.s.packet_locs = Offsets(1)
               /\ r.s.packet_id = NPackets - j
               /\ Packet(r) = PacketWords(NPackets - j)

\* the indices tried around the start and the end of the stream
Indices == (0 - 3)..(MaxWords + 1)

\* load_packet(index, whence) gets as far as resolving the index, and the
\* packet number it resolves to is negative
ResolvesNegative(index, whence) ==
    LET b == IF whence = 2 THEN build_packet_locs(St, FALSE)
             ELSE Out(St, "none", "None", 0)
    IN b.err = "none" /\ resolve_index(b.s, index, whence) < 0

\* what load_packet does in that case, the index left aside
Rewinds(r) ==
    /\ NoPacket(r)
    /\ r.s.pos = 0
    /\ r.s.packet_id = -1
    /\ LET r2 == load_packet(r.s, FALSE, 0, 0, FALSE)
       IN Loaded(r2) /\ r2.s.packet_id = 0 /\ Packet(r2) = << stream[1] >>

(***************************************************************************)
(* C9 as stated: load_packet with an index that resolves to a negative     *)
(* packet number does not raise; it moves the cursor to byte 0, sets the   *)
(* packet counter to -1, leaves the index unchanged and returns None; the  *)
(* next load_packet() returns packet 0.                                    *)
(***************************************************************************)
C9_RewindLeavesIndex ==
    Opened =>
        \A index \in Indices, whence \in 0..2 :
            ResolvesNegative(index, whence) =>
                LET r == load_packet(St, TRUE, index, whence, FALSE)
                IN Rewinds(r) /\ r.s.packet_locs = packet_locs

(***************************************************************************)
(* C9 amended: as stated for whence 0 and 1.  With whence = 2 the index    *)
(* is first extended by build_packet_locs (on a stream of complete         *)
(* packets: to every packet of the stream) and only then is the cursor     *)
(* rewound; the offsets recorded before the call are kept.                 *)
(***************************************************************************)
C9_RewindKeepsOrCompletesIndex ==
    Opened =>
        \A index \in Indices, whence \in 0..2 :
            ResolvesNegative(index, whence) =>
                LET r == load_packet(St, TRUE, index, whence, FALSE)
                IN /\ Rewinds(r)
                   /\ whence # 2 => r.s.packet_locs = packet_locs
                   /\ whence = 2 =>
                        /\ r.s.packet_locs
                              = build_packet_locs(St, FALSE).s.packet_locs
                        /\ SubSeq(r.s.packet_locs, 1, Len(packet_locs))
                              = packet_locs
                        /\ WellFormed => r.s.packet_locs = Offsets(1)

\* a load_packet call has rewound a stream that had been read past its
\* header packet
C9_Witness ==
    /\ Opened /\ last.op = "load_packet" /\ NoPacket(last)
    /\ pos = 0 /\ packet_id = -1
    /\ Len(packet_locs) >= 2

(***************************************************************************)
(* C10: for any stream contents and from any state of an open stream,      *)
(* load_packet(i, whence=0) returns a packet iff 0 <= i < N, N being what  *)
(* count_packets() returns; for i >= N it returns None without raising     *)
(* and the index then holds all N packets.                                 *)
(***************************************************************************)
C10_LoadsIffCounted ==
    Opened =>
        LET c == count_packets(St, TRUE)
        IN c.err = "none" =>
              \A i \in Indices :
                  LET r == load_packet(St, TRUE, i, 0, FALSE)
                  IN /\ r.err = "none"
                     /\ Loaded(r) <=> (0 <= i /\ i < c.n)
                     /\ i >= c.n => NoPacket(r) /\ Len(r.s.packet_locs) = c.n

\* the byte offset just after packet number k
EndOf(k) == Offsets(1)[k + 1] + 4 * get_n_words(HeaderOf(k))

\* r is packet number k, loaded whole, with the counter and cursor on it
IsPacket(r, k) ==
    /\ Loaded(r)
    /\ r.s.packet_id = k
    /\ r.s.pos = EndOf(k)
    /\ Packet(r) = PacketWords(k)

(***************************************************************************)
(* C11: from any reachable state of an open stream of complete packets,    *)
(* load_packet(k, whence=0) for an already indexed k returns packet k and  *)
(* leaves the packet counter at k; the load_packet() that follows returns  *)
(* packet k+1, or None if k is the last packet.                            *)
(***************************************************************************)
C11_IndexedPacketReloads ==
    Opened /\ WellFormed =>
        \A k \in 0..(Len(packet_locs) - 1) :
            LET next(r) ==
                    IF k = NPackets - 1 THEN NoPacket(r) /\ r.s.packet_id = k
                    ELSE IsPacket(r, k + 1)
                back(r) ==
                    /\ IsPacket(r, k)
                    /\ r.s.packet_locs = packet_locs
                    /\ next(load_packet(r.s, FALSE, 0, 0, FALSE))
            IN back(load_packet(St, TRUE, k, 0, FALSE))

\* load_packet has returned packet 1 of a stream whose three packets are
\* all indexed: the cursor is back before the last packet
C11_Witness ==
    /\ Opened /\ WellFormed /\ NPackets = 3 /\ Len(packet_locs) = 3
    /\ last.op = "load_packet" /\ Loaded(last)
    /\ packet_id = 1 /\ pos = EndOf(1)
    /\ SubSeq(buffer, 1, last.n) = PacketWords(1)

\* two calls ended alike: same outcome, same words handed back, cursor,
\* packet counter and index in the same state
SameOutcome(r1, r2) ==
    /\ r1.err = r2.err /\ r1.ret = r2.ret /\ r1.n = r2.n
    /\ Packet(r1) = Packet(r2)
    /\ r1.s.pos = r2.s.pos
    /\ r1.s.packet_id = r2.s.packet_id

\* the call that ended in b kept the cursor and the packet counter, and
\* the next load_packet() is the one the state before the call would give
KeepsPosition(b) ==
    b.err = "none" =>
        /\ b.s.pos = pos
        /\ b.s.packet_id = packet_id
        /\ SameOutcome(load_packet(b.s, FALSE, 0, 0, FALSE),
                       load_packet(St, FALSE, 0, 0, FALSE))

(***************************************************************************)
(* C12: build_packet_locs(saveloc=True) and count_packets(saveloc=True)    *)
(* leave the read cursor and the packet counter at their pre-call values,  *)
(* from any reachable state of an open stream, so the next load_packet()   *)
(* returns the packet it would have returned without the call.  Checked    *)
(* on every stream whose headers each declare at least one word, a last    *)
(* packet cut short included, whenever the call returns.                   *)
(***************************************************************************)
C12_SavelocKeepsPosition ==
    Opened /\ Framed(1) =>
              /\ KeepsPosition(build_packet_locs(St, TRUE))
              /\ KeepsPosition(count_packets(St, TRUE))

\* count_packets has indexed all three packets of a stream and the cursor
\* is still just after the header packet
C12_Witness ==
    /\ Opened /\ WellFormed /\ NPackets = 3
    /\ last.op = "count_packets" /\ last.err = "none" /\ last.n = 3
    /\ Len(packet_locs) = 3 /\ packet_id = 0 /\ pos = EndOf(0)

\* q starts with the entries of p
Extends(q, p) == Len(q) >= Len(p) /\ SubSeq(q, 1, Len(p)) = p

\* count_packets ended in c with the whole stream indexed and counted
CountsAll(c) ==
    /\ c.err = "none" /\ c.ret = "count"
    /\ c.n = NPackets
    /\ c.s.packet_locs = Offsets(1)
    /\ Extends(c.s.packet_locs, packet_locs)

(***************************************************************************)
(* C13: after build_packet_locs / count_packets returns, the index holds   *)
(* one offset for every packet of the stream and count_packets returns     *)
(* that number; calling it again, from any cursor position, returns the    *)
(* same count and leaves every recorded offset unchanged.                  *)
(***************************************************************************)
C13_CountIsIdempotent ==
    Opened /\ Framed(1) /\ tail = 0 =>
        \A saveloc \in BOOLEAN, again \in BOOLEAN :
            LET recount(c, c2) ==
                    /\ CountsAll(c2)
                    /\ c2.s.packet_locs = c.s.packet_locs
                moved(c, m) ==
                    /\ m.err = "none"
                    /\ recount(c, count_packets(m.s, again))
                counted(c) ==
                    /\ CountsAll(c)
                    /\ recount(c, count_packets(c.s, again))
                    /\ \A k \in Indices :
                          moved(c, load_packet(c.s, TRUE, k, 0, FALSE))
                built(b) ==
                    /\ b.err = "none"
                    /\ b.s.packet_locs = Offsets(1)
                    /\ CountsAll(count_packets(b.s, again))
            IN /\ counted(count_packets(St, saveloc))
               /\ built(build_packet_locs(St, saveloc))

\* count_packets has returned 3 with the cursor at the end of a stream of
\* three packets
C13_Witness ==
    /\ Opened /\ WellFormed /\ NPackets = 3
    /\ last.op = "count_packets" /\ last.err = "none" /\ last.n = 3
    /\ packet_locs = Offsets(1) /\ packet_id = 2 /\ pos = Size

\* the byte offset the cursor has when the packet counter is p
CursorAt(p) == IF p < 0 THEN 0 ELSE EndOf(p)

\* the words of the packet buffer after its first are those of buf
KeepsPayloadWords(buf2, buf) ==
    /\ Len(buf2) = Len(buf)
    /\ \A j \in 2..Len(buf) : buf2[j] = buf[j]

(***************************************************************************)
(* C14: skip_packet(n) on an open stream of N complete packets with the    *)
(* packet counter at p.  For n >= 0 it returns True iff p + n <= N - 1,    *)
(* leaving the counter at p + n and copying no payload into the packet     *)
(* buffer; otherwise it returns False at the header read that hits EOF.    *)
(* skip_packet(0) reads nothing and returns True.  A negative n raises     *)
(* before any read or seek.                                                *)
(***************************************************************************)
C14_SkipCountsPackets ==
    Opened /\ WellFormed =>
        \A n \in (0 - 2)..(MaxWords + 1) :
            LET skipped(r) ==
                    IF n < 0 THEN r.err = "ValueError" /\ r.s = St
                    ELSE /\ r.err = "none"
                         /\ r.ret \in {"True", "False"}
                         /\ (r.ret = "True") = (packet_id + n <= NPackets - 1)
                         /\ r.ret = "True" =>
                               /\ r.s.packet_id = packet_id + n
                               /\ r.s.pos = CursorAt(packet_id + n)
                         /\ r.ret = "False" =>
                               /\ r.s.packet_id = NPackets - 1
                               /\ r.s.pos = Size
                         /\ KeepsPayloadWords(r.s.buffer, buffer)
                         /\ n = 0 => r.s = St
            IN pos = CursorAt(packet_id) /\ skipped(skip_packet(St, n))

\* skip_packet has passed over a two-word packet, the last of the stream,
\* and the packet buffer still has room for one word only
C14_Witness ==
    /\ Opened /\ WellFormed /\ NPackets = 3
    /\ last.op = "skip_packet" /\ last.err = "none" /\ last.ret = "True"
    /\ packet_id = 2 /\ get_n_words(HeaderOf(2)) = 2 /\ pos = Size
    /\ buffer = << HeaderOf(2) >>

(***************************************************************************)
(* C15 as stated: any load_packet call whose whence is not 0, 1 or 2 is    *)
(* rejected with an error and does no partial work: cursor, packet         *)
(* counter, index and byte counter are unchanged.                          *)
(***************************************************************************)
C15_BadWhenceRejected ==
    Opened =>
        \A has_index \in BOOLEAN, index \in Indices, skip \in BOOLEAN :
            LET rejected(r) == r.err = "ValueError" /\ r.s = St
            IN rejected(load_packet(St, has_index, index, 3, skip))

(***************************************************************************)
(* C15 amended: a load_packet call that supplies an index and a whence     *)
(* other than 0, 1 or 2 is rejected with an error and does no partial      *)
(* work.  Without an index whence is not looked at: the call loads the     *)
(* next packet as load_packet() does.                                      *)
(***************************************************************************)
C15_BadWhenceRejectedWithIndex ==
    Opened =>
        \A index \in Indices, skip \in BOOLEAN :
            LET rejected(r) == r.err = "ValueError" /\ r.s = St
            IN /\ rejected(load_packet(St, TRUE, index, 3, skip))
               /\ load_packet(St, FALSE, index, 3, skip)
                     = load_packet(St, FALSE, index, 0, skip)

\* a load_packet call on a stream read past its header has been rejected
C15_Witness ==
    /\ Opened /\ last.op = "load_packet" /\ last.err = "ValueError"
    /\ packet_id >= 1 /\ Len(packet_locs) >= 2

\* the number of bytes a read of one word gets at the cursor
HeaderBytes == Min(4, Max(0, Size - pos))

(***************************************************************************)
(* C16: load_packet_header tells three outcomes apart by the number of     *)
(* bytes read: 0 bytes returns None without error; 1 to 3 bytes raises;    *)
(* 4 bytes succeeds and increments the packet counter by exactly one.  In  *)
(* the first two outcomes the packet counter and the index are unchanged.  *)
(***************************************************************************)
C16_HeaderReadOutcomes ==
    Opened /\ Framed(1) =>
        LET header_read(h) ==
                /\ h.s.pos = pos + HeaderBytes
                /\ HeaderBytes = 0 =>
                      /\ NoPacket(h)
                      /\ h.s.packet_id = packet_id
                      /\ h.s.packet_locs = packet_locs
                /\ HeaderBytes \in 1..3 =>
                      /\ h.err = "RuntimeError: header bytes"
                      /\ h.s.packet_id = packet_id
                      /\ h.s.packet_locs = packet_locs
                /\ HeaderBytes = 4 =>
                      /\ Loaded(h) /\ h.n = 1
                      /\ h.s.buffer[1] = stream[pos \div 4 + 1]
                      /\ h.s.packet_id = packet_id + 1
                      /\ Extends(h.s.packet_locs, packet_locs)
                      /\ h.s.packet_locs[packet_id + 2] = pos
        IN header_read(load_packet_header(St))

\* a header read has met the two bytes a stream ends with and raised
C16_Witness ==
    /\ Opened /\ Framed(1) /\ tail = 2
    /\ last.err = "RuntimeError: header bytes"
    /\ pos = Size /\ packet_id >= 1 /\ packet_id = Len(packet_locs) - 1

\* the last packet of the stream is a long packet with less payload in the
\* stream than its header declares
CutShort == Framed(1) /\ NPackets >= 1 /\ EndOf(NPackets - 1) > Size

\* the cursor is at the header of the last packet
AtLast == pos = Offsets(1)[NPackets] /\ packet_id = NPackets - 2

\* the stream is over for sequential reads from s on
Over(s) ==
    LET none(r) == NoPacket(r) /\ r.s.pos = s.pos /\ r.s.packet_id = s.packet_id
        false(r) == r.err = "none" /\ r.ret = "False" /\ ~r.dec
    IN /\ none(load_packet(s, FALSE, 0, 0, FALSE))
       /\ none(load_packet(s, FALSE, 0, 0, TRUE))
       /\ \A d \in BOOLEAN : false(read_packet(s, d))

(***************************************************************************)
(* C17: when the payload of a long packet is shorter in the stream than    *)
(* its header declares, load_packet returns None and does not raise;       *)
(* read_packet then returns False, and every later sequential              *)
(* load_packet() also returns None.                                        *)
(***************************************************************************)
C17_ShortPayloadIsEOF ==
    Opened /\ CutShort =>
        LET short(r) == NoPacket(r) /\ r.s.packet_id = NPackets - 1 /\ Over(r.s)
            false(r) == r.err = "none" /\ r.ret = "False" /\ ~r.dec /\ Over(r.s)
        IN /\ Len(packet_locs) = NPackets =>
                short(load_packet(St, TRUE, NPackets - 1, 0, FALSE))
           /\ AtLast => /\ short(load_packet(St, FALSE, 0, 0, FALSE))
                        /\ \A d \in BOOLEAN : false(read_packet(St, d))

\* load_packet has returned None at the last packet of the stream, a
\* two-word packet whose payload word is missing
C17_Witness ==
    /\ Opened /\ CutShort /\ NPackets >= 2
    /\ last.op = "load_packet" /\ NoPacket(last)
    /\ get_n_words(HeaderOf(NPackets - 1)) = 2
    /\ packet_id = NPackets - 1 /\ pos = Size

\* the cursor is at the header word of a packet that has the short bit set
AtShort ==
    /\ pos = CursorAt(packet_id)
    /\ packet_id + 1 <= NPackets - 1
    /\ is_short(HeaderOf(packet_id + 1))

(***************************************************************************)
(* C18: for a packet whose header has the short bit set, load_packet       *)
(* returns a view of exactly one word (the header), reads no payload and   *)
(* advances the cursor by exactly 4 bytes from the packet's start;         *)
(* skip_packet over the same packet also advances the cursor by 4 bytes.   *)
(***************************************************************************)
C18_ShortPacketIsOneWord ==
    Opened /\ Framed(1) =>
        LET one(r, start) ==
                /\ Loaded(r) /\ r.n = 1
                /\ Packet(r) = << stream[start \div 4 + 1] >>
                /\ r.s.pos = start + 4
                /\ KeepsPayloadWords(r.s.buffer, buffer)
            sequential_read(r) ==
                /\ one(r, pos)
                /\ r.s.n_bytes_read = count_bytes(n_bytes_read, 4)
            skipped(r) ==
                /\ r.err = "none" /\ r.ret = "True"
                /\ r.s.pos = pos + 4
                /\ r.s.packet_id = packet_id + 1
                /\ KeepsPayloadWords(r.s.buffer, buffer)
        IN /\ AtShort =>
                /\ \A skip \in BOOLEAN :
                      sequential_read(load_packet(St, FALSE, 0, 0, skip))
                /\ skipped(skip_packet(St, 1))
           /\ \A k \in 0..(Len(packet_locs) - 1) :
                 is_short(HeaderOf(k)) =>
                    one(load_packet(St, TRUE, k, 0, FALSE), packet_locs[k + 1])

\* load_packet has returned a short packet that follows a two-word packet
C18_Witness ==
    /\ Opened /\ Framed(1)
    /\ last.op = "load_packet" /\ Loaded(last) /\ last.n = 1
    /\ packet_id = 2 /\ is_short(HeaderOf(2)) /\ buffer[1] = HeaderOf(2)
    /\ get_n_words(HeaderOf(1)) = 2
    /\ pos = packet_locs[3] + 4

\* the cursor is at the header word of a complete long packet whose id has
\* no registered decoder
AtUnregistered ==
    /\ pos = CursorAt(packet_id)
    /\ packet_id + 1 <= NPackets - 1
    /\ ~is_short(HeaderOf(packet_id + 1))
    /\ IdOf(packet_id + 1) \notin DOMAIN decoder_id_dict
    /\ EndOf(packet_id + 1) <= Size

\* the streamer is left in the same place by two calls
SamePlace(s1, s2) ==
    /\ s1.pos = s2.pos
    /\ s1.packet_id = s2.packet_id
    /\ s1.packet_locs = s2.packet_locs

(***************************************************************************)
(* C19: load_packet(skip_unknown_ids=True) on a long packet whose id has   *)
(* no registered decoder returns the header-only view without copying the  *)
(* payload into the packet buffer, and leaves cursor, packet counter and   *)
(* index in the state load_packet(skip_unknown_ids=False) leaves them in,  *)
(* so later calls see the same packets with or without the flag.           *)
(***************************************************************************)
C19_SkipUnknownSamePlace ==
    Opened /\ Framed(1) /\ AtUnregistered =>
        LET later(a, b) ==
                /\ SameOutcome(a, b)
                /\ SamePlace(a.s, b.s)
            both(a, b) ==
                /\ Loaded(a) /\ a.n = 1
                /\ Packet(a) = << HeaderOf(packet_id + 1) >>
                /\ KeepsPayloadWords(a.s.buffer, buffer)
                /\ IsPacket(b, packet_id + 1)
                /\ SamePlace(a.s, b.s)
                /\ \A skip \in BOOLEAN :
                      later(load_packet(a.s, FALSE, 0, 0, skip),
                            load_packet(b.s, FALSE, 0, 0, skip))
                /\ \A d \in BOOLEAN :
                      later(read_packet(a.s, d), read_packet(b.s, d))
        IN both(load_packet(St, FALSE, 0, 0, TRUE),
                load_packet(St, FALSE, 0, 0, FALSE))

\* load_packet has handed back the header of a two-word packet, the cursor
\* is after the packet and the packet buffer holds one word only
C19_Witness ==
    /\ Opened /\ WellFormed
    /\ last.op = "load_packet" /\ Loaded(last) /\ last.n = 1
    /\ packet_id >= 1 /\ get_n_words(HeaderOf(packet_id)) = 2
    /\ IdOf(packet_id) \notin DOMAIN decoder_id_dict
    /\ pos = EndOf(packet_id)
    /\ buffer = << HeaderOf(packet_id) >>

\* the ids of the header's mapping whose type name is n
IdsOfType(n) == {k \in DOMAIN IdToDecName : IdToDecName[k] = n}

\* the decoder objects the dispatch table holds for type name n
DecodersOfType(n) == {decoder_id_dict[k] : k \in IdsOfType(n) \cap DOMAIN decoder_id_dict}

\* the file starts with a complete header packet
HasHeader == Len(stream) >= 1 /\ stream[1] = HeaderWord

(***************************************************************************)
(* C20: after open_stream, any two ids the header maps to one implemented  *)
(* decoder type name are bound to one and the same decoder object (every   *)
(* type is instantiated once), every id whose type name has no             *)
(* implementation is recorded in missing_decoders and is not in            *)
(* decoder_id_dict, and open_stream has not failed because of such an id.  *)
(***************************************************************************)
C20_OneDecoderPerType ==
    in_stream = "open" /\ HasHeader =>
        /\ header # "None"
        /\ last.op = "open_stream" => last.err = "none"
        /\ \A a, b \in DOMAIN IdToDecName :
              IdToDecName[a] = IdToDecName[b] /\ IdToDecName[a] \in Implemented
                  => /\ a \in DOMAIN decoder_id_dict
                     /\ b \in DOMAIN decoder_id_dict
                     /\ decoder_id_dict[a] = decoder_id_dict[b]
        /\ \A n \in Implemented :
              IdsOfType(n) # {} => Cardinality(DecodersOfType(n)) = 1
        /\ \A n1, n2 \in Implemented :
              n1 # n2 => DecodersOfType(n1) \cap DecodersOfType(n2) = {}
        /\ \A k \in DOMAIN IdToDecName :
              IdToDecName[k] \notin Implemented
                  => /\ Count(missing_decoders, k) = 1
                     /\ k \notin DOMAIN decoder_id_dict

\* open_stream has returned for a header that maps two ids to one
\* implemented type and one id to a type without implementation
C20_Witness ==
    /\ last.op = "open_stream" /\ last.err = "none" /\ header # "None"
    /\ \E a, b \in DOMAIN decoder_id_dict :
          a # b /\ IdToDecName[a] = IdToDecName[b]
    /\ \E k \in DOMAIN IdToDecName : InSeq(k, missing_decoders)

(***************************************************************************)
(* C21: with a buffer library that restricts the outputs (no "*" entry),   *)
(* open_stream registers a decoder in decoder_id_dict only for the ids     *)
(* whose decoder type name is declared in the header and is in the         *)
(* caller's library, and none for a type the caller did not request.       *)
(***************************************************************************)
C21_OnlyRequestedRegistered ==
    Opened =>
        \A k \in DOMAIN decoder_id_dict : IdToDecName[k] \in decoder_names

(***************************************************************************)
(* is_orca_stream on a file.                                               *)
(***************************************************************************)
IsOrcaStream ==
    /\ probe_last = NoProbe
    /\ \E r \in {is_orca_stream(file, weak_scalars)} :
          /\ probe_last' = r
          /\ probe_open' = probe_open + r.open
    /\ UNCHANGED << file, weak_scalars >>
    /\ UNCHANGED << stream, tail, in_stream, pos, packet_id, packet_locs,
                    n_bytes_read, buffer, header, decoder_id_dict,
                    rbl_id_dict, missing_decoders, any_full, sequential,
                    decoded, warned, debugged, hung, last, fc_vars >>

ProbeInit ==
    /\ stream = <<>> /\ tail = 0
    /\ NewStreamer
    /\ file \in Files
    /\ weak_scalars \in BOOLEAN
    /\ probe_open = 0
    /\ probe_last = NoProbe
    /\ FcIdle

ProbeNext == IsOrcaStream

SpecProbe == ProbeInit /\ [][ProbeNext]_vars

\* the padding 4 * w0 - 8 - w1 of the file's first two words, taken as a
\* mathematical integer, is in 0..3 (a second word with bit 31 set is
\* 2^31 or more, and the first word is below 2^18)
MathPadFits ==
    /\ file.w0 >= 0 /\ file.w0 < NWordsModulus
    /\ file.w1 >= 0
    /\ (4 * file.w0 - 8) - file.w1 \in 0..3

(***************************************************************************)
(* C22: is_orca_stream returns True only if 12 bytes were read, the top    *)
(* fourteen bits of the first word are zero, the padding 4*w0 - 8 - w1     *)
(* taken as a mathematical integer is in 0..3, and bytes 8..11 are "<?xm". *)
(***************************************************************************)
C22_TrueOnlyIfValid ==
    probe_last.op = "is_orca_stream" /\ probe_last.ret = "True" =>
        /\ file.n_bytes >= 12
        /\ ~top_fourteen_bits_set(file.w0)
        /\ MathPadFits
        /\ file.tag = XmlTag

(***************************************************************************)
(* C23: whatever a readable file holds, is_orca_stream returns a boolean   *)
(* and does not raise, and the stream it opened is closed when it returns. *)
(***************************************************************************)
C23_ReturnsBooleanAndCloses ==
    probe_last.op = "is_orca_stream" =>
        /\ probe_last.err = "none"
        /\ probe_last.ret \in {"True", "False"}
        /\ probe_open = 0

(***************************************************************************)
(* close_stream, and the calls on a streamer whose in_stream is None       *)
(* (never opened, or closed).                                              *)
(***************************************************************************)
\* a close_in_stream that has nothing to do on a streamer without stream
close_in_stream_quiet(s_in) ==
    [err |-> "none", in_stream |-> "None"]

\* close_in_stream on in_stream s_in: the error and in_stream afterwards
close_in_stream(s_in) ==
    IF s_in = "None" THEN [err |-> "RuntimeError", in_stream |-> s_in]
    ELSE [err |-> "none", in_stream |-> "None"]

\* load_packet's first statement finds in_stream None
load_packet_unopened(s) == Out(s, "RuntimeError", "None", 0)

\* skip_packet's first statement finds in_stream None
skip_packet_unopened(s, n) == Out(s, "RuntimeError", "None", 0)

\* build_packet_locs asks None for tell()
build_packet_locs_unopened(s, saveloc) == Out(s, "AttributeError", "None", 0)

\* count_packets fails in build_packet_locs
count_packets_unopened(s, saveloc) == build_packet_locs_unopened(s, saveloc)

\* read_packet fails in its first load_packet
read_packet_unopened(s) == load_packet_unopened(s)

Unopened == ~hung /\ in_stream = "None"

\* nothing but last changes
OnlyLast ==
    UNCHANGED << stream, tail, in_stream, pos, packet_id, packet_locs,
                 n_bytes_read, buffer, any_full, sequential, decoded, warned,
                 debugged, hung, Registry, outside_streamer >>

CloseStream ==
    /\ ~hung
    /\ \E r \in {close_in_stream(in_stream)} :
          /\ in_stream' = r.in_stream
          /\ last' = Call("close_stream", Out(St, r.err, "None", 0), FALSE, FALSE)
    /\ UNCHANGED << stream, tail, pos, packet_id, packet_locs, n_bytes_read,
                    buffer, any_full, sequential, decoded, warned, debugged,
                    hung, Registry, outside_streamer >>

LoadPacketUnopened ==
    /\ Unopened
    /\ last' = Call("load_packet", load_packet_unopened(St), FALSE, FALSE)
    /\ OnlyLast

SkipPacketUnopened ==
    /\ Unopened
    /\ \E n \in 0..1 :
          last' = Call("skip_packet", skip_packet_unopened(St, n), FALSE, FALSE)
    /\ OnlyLast

BuildPacketLocsUnopened ==
    /\ Unopened
    /\ \E saveloc \in BOOLEAN :
          last' = Call("build_packet_locs",
                       build_packet_locs_unopened(St, saveloc), FALSE, FALSE)
    /\ OnlyLast

CountPacketsUnopened ==
    /\ Unopened
    /\ \E saveloc \in BOOLEAN :
          last' = Call("count_packets",
                       count_packets_unopened(St, saveloc), FALSE, FALSE)
    /\ OnlyLast

ReadPacketUnopened ==
    /\ Unopened
    /\ last' = Call("read_packet", read_packet_unopened(St), FALSE, FALSE)
    /\ OnlyLast

\* the files the streamer is closed on
CloseStreams ==
    { <<>>, << HeaderWord >>, << HeaderWord, ShortWord(IdBound) >>,
      << HeaderWord, LongWord(IdBound, 2), 0 >>,
      << HeaderWord, LongWord(IdAbsent, 2), 0, ShortWord(IdBound) >>,
      << HeaderWord, LongWord(IdMissing, 1), LongWord(IdNoBuffer, 1) >> }

CloseInit ==
    /\ stream \in CloseStreams
    /\ tail = 0
    /\ NewStreamer
    /\ ProbeIdle
    /\ FcIdle

CloseNext ==
    \/ Next
    \/ CloseStream
    \/ LoadPacketUnopened
    \/ SkipPacketUnopened
    \/ BuildPacketLocsUnopened
    \/ CountPacketsUnopened
    \/ ReadPacketUnopened

SpecClose == CloseInit /\ [][CloseNext]_vars

(***************************************************************************)
(* C24: once close_stream has closed the stream, and on a streamer that    *)
(* was never opened, every load_packet, skip_packet, read_packet,          *)
(* build_packet_locs, count_packets and close_stream call fails with an    *)
(* error; none returns a packet or a count, and the streamer stays closed. *)
(***************************************************************************)
C24_ClosedStreamerFails ==
    [][ in_stream = "None" /\ last'.op # "open_stream"
            => /\ last'.err \in {"RuntimeError", "AttributeError"}
               /\ last'.ret = "None" /\ last'.n = 0
               /\ in_stream' = "None"
               /\ << pos, packet_id, packet_locs >>' = << pos, packet_id, packet_locs >>
      ]_vars

\* a load_packet has failed on a streamer that read packets and was closed
C24_Witness ==
    /\ in_stream = "None" /\ header # "None" /\ packet_id >= 1
    /\ last.op = "load_packet" /\ last.err = "RuntimeError"

(***************************************************************************)
(* A status RawBuffer fed by FCStatusDecoder.decode_packet.                *)
(***************************************************************************)
\* the streamer is not used
StreamerIdle ==
    /\ stream = <<>> /\ tail = 0
    /\ NewStreamer

StreamerUnchanged ==
    UNCHANGED << stream, tail, in_stream, pos, packet_id, packet_locs,
                 n_bytes_read, buffer, header, decoder_id_dict, rbl_id_dict,
                 missing_decoders, any_full, sequential, decoded, warned,
                 debugged, hung, last >>

DecodeStatus ==
    /\ fc_last.err = "none" /\ fc_packet_id < MaxFcPackets
    /\ \E status \in 0..1 :
         \E r \in {status_decode_packet(status_rb, status)} :
            /\ status_rb' = r.rb
            /\ fc_last' = [op |-> "status", err |-> r.err, ret |-> r.ret,
                            before |-> <<>>]
    /\ fc_packet_id' = fc_packet_id + 1
    /\ StreamerUnchanged
    /\ UNCHANGED << probe_vars, event_vars, schema_vars >>

StatusInit ==
    /\ StreamerIdle
    /\ ProbeIdle
    /\ status_rb \in {RawBuffer(cap, 1) : cap \in 1..MaxRows}
    /\ fc_packet_id = 0
    /\ fc_last = NoDecode
    /\ EventIdle
    /\ SchemaIdle

StatusNext == DecodeStatus

SpecStatus == StatusInit /\ [][StatusNext]_vars

(***************************************************************************)
(* C25: a fresh RawBuffer of capacity C fed by FCStatusDecoder             *)
(* .decode_packet: after call k <= C the fill offset is k; calls 1..C-1    *)
(* return false and leave is_full() false, call C returns true and         *)
(* is_full() is true.                                                      *)
(***************************************************************************)
C25_FullExactlyAtCapacity ==
    fc_last.op = "status" /\ fc_packet_id <= status_rb.cap =>
        /\ fc_last.err = "none"
        /\ status_rb.loc = fc_packet_id
        /\ fc_last.ret = (fc_packet_id = status_rb.cap)
        /\ is_full(status_rb) = (fc_packet_id = status_rb.cap)
        /\ \A i \in 1..status_rb.cap :
              (status_rb.rows[i] # NoRow) = (i <= fc_packet_id)

\* the fifth call on a buffer of five rows has reported it full
C25_Witness ==
    /\ fc_last.op = "status" /\ fc_last.ret
    /\ status_rb.cap = 5 /\ fc_packet_id = 5 /\ is_full(status_rb)

(***************************************************************************)
(* A buffer list fed by FCEventDecoder.decode_packet.                      *)
(***************************************************************************)
MaxEvents == 3         \* at most this many events are decoded
MaxAdcs == 3           \* per-channel buffers are built for up to so many adcs

\* buffers keyed by channel: channel 1 has a buffer of its own, the key
\* list 2..4 shares one, the other channels have none
KeyedPools ==
    { [config |-> [nadcs |-> 6, nsamples |-> 1],
       rbs |-> << RawBuffer(c1, 1), RawBuffer(c2, 1) >>,
       rbkd |-> (1 :> 1) @@ (2 :> 2) @@ (3 :> 2) @@ (4 :> 2)] :
        c1 \in {1, 2}, c2 \in {3, MaxRows} }

\* one RawBuffer per channel, capacity and fill_safety both
\* get_max_rows_in_packet()
PerChannelPools ==
    { [config |-> [nadcs |-> n, nsamples |-> 1],
       rbs |-> [k \in 1..n |->
                  RawBuffer(get_max_rows_in_packet([nadcs |-> n]),
                            get_max_rows_in_packet([nadcs |-> n]))],
       rbkd |-> [k \in 0..(n - 1) |-> k + 1]] : n \in 1..MaxAdcs }

\* fcio.event.trace_list of the events tried
TraceLists ==
    { <<>>, <<0>>, <<1>>, <<2>>, <<5>>, <<0, 1>>, <<2, 3>>, <<3, 2>>, <<4, 5>>,
      <<5, 1>>, <<2, 3, 4>>, <<4, 2, 3>>, <<2, 5, 3>>, <<3, 3>> }

DecodeEvent ==
    /\ fc_last.err = "none" /\ Len(events) < MaxEvents /\ rbs # <<>>
    /\ \E trace_list \in TraceLists :
         /\ \A i \in 1..Len(trace_list) : trace_list[i] < fc_config.nadcs
         /\ \E r \in {event_decode_packet(rbs, evt_rbkd, skipped_channels,
                                          debug_log, trace_list, fc_packet_id)} :
              /\ rbs' = r.rbs
              /\ skipped_channels' = r.skipped
              /\ debug_log' = r.log
              /\ fc_last' = [op |-> "event", err |-> r.err, ret |-> r.any_full,
                             before |-> rbs]
         /\ events' = Append(events, [trace_list |-> trace_list,
                                      packet_id |-> fc_packet_id])
    /\ fc_packet_id' = fc_packet_id + 1
    /\ StreamerUnchanged
    /\ UNCHANGED << probe_vars, status_rb, fc_config, evt_rbkd, schema_vars >>

EventInit ==
    /\ StreamerIdle
    /\ ProbeIdle
    /\ status_rb = RawBuffer(1, 1)
    /\ fc_packet_id \in {0, 69}
    /\ fc_last = NoDecode
    /\ \E p \in KeyedPools \cup PerChannelPools :
          /\ fc_config = p.config
          /\ rbs = p.rbs
          /\ evt_rbkd = p.rbkd
    /\ skipped_channels = <<>>
    /\ debug_log = <<>>
    /\ events = <<>>
    /\ SchemaIdle

EventNext == DecodeEvent

SpecEvent == EventInit /\ [][EventNext]_vars

\* the traces of trace list q, from the i-th on, that go to buffer b
RECURSIVE Routed(_, _, _)
Routed(q, i, b) ==
    IF i > Len(q) THEN <<>>
    ELSE (IF q[i] \in DOMAIN evt_rbkd /\ evt_rbkd[q[i]] = b THEN << q[i] >>
          ELSE <<>>) \o Routed(q, i + 1, b)

LastEvent == events[Len(events)]

Returned == fc_last.op = "event" /\ fc_last.err = "none"

C27_FullAfterOneRowEach ==
    /\ Returned /\ Len(events) = 1 /\ LastEvent.trace_list # <<>>
    /\ \A b \in DOMAIN rbs :
          /\ rbs[b].cap = get_max_rows_in_packet(fc_config)
          /\ rbs[b].fill_safety = get_max_rows_in_packet(fc_config)
    /\ \A i \in 1..Len(LastEvent.trace_list) :
          LastEvent.trace_list[i] \in DOMAIN evt_rbkd
    => fc_last.ret

\* how often channel key is in the trace lists of the first n events
RECURSIVE Occurrences(_, _)
Occurrences(key, n) ==
    IF n = 0 THEN 0
    ELSE Occurrences(key, n - 1) + Count(events[n].trace_list, key)

\* the rows the first n events put into buffer b
RECURSIVE RowsOf(_, _)
RowsOf(b, n) ==
    IF n = 0 THEN <<>>
    ELSE RowsOf(b, n - 1)
         \o [i \in 1..Len(Routed(events[n].trace_list, 1, b)) |->
               EventRow(Routed(events[n].trace_list, 1, b)[i],
                        events[n].packet_id)]

\* the rows written into buffer b
Written(b) == SubSeq([i \in 1..rbs[b].cap |-> rbs[b].rows[i]], 1, rbs[b].loc)

\* every decode_packet so far has returned
AllReturned == fc_last.op \in {"none", "event"} /\ fc_last.err = "none"

(***************************************************************************)
(* C28: a trace whose channel key has no RawBuffer in evt_rbkd writes no   *)
(* row and advances no fill offset; the drop is logged once per key, on    *)
(* its first occurrence, and skipped_channels[key] is the number of traces *)
(* of that key dropped so far, over any sequence of calls.                 *)
(***************************************************************************)
C28_DroppedCountedLoggedOnce ==
    AllReturned /\ rbs # <<>> =>
        /\ \A key \in 0..(fc_config.nadcs - 1) :
              IF key \in DOMAIN evt_rbkd
              THEN key \notin DOMAIN skipped_channels /\ ~InSeq(key, debug_log)
              ELSE /\ (key \in DOMAIN skipped_channels)
                          = (Occurrences(key, Len(events)) > 0)
                   /\ key \in DOMAIN skipped_channels
                          => skipped_channels[key] = Occurrences(key, Len(events))
                   /\ Count(debug_log, key)
                          = (IF Occurrences(key, Len(events)) > 0 THEN 1 ELSE 0)
                   /\ \A b \in DOMAIN rbs : \A i \in 1..rbs[b].cap :
                          rbs[b].rows[i].channel # key
        /\ \A b \in DOMAIN rbs : rbs[b].loc = Len(RowsOf(b, Len(events)))

\* channel 5 has been dropped in two packets and logged once
C28_Witness ==
    /\ AllReturned /\ 5 \notin DOMAIN evt_rbkd
    /\ 5 \in DOMAIN skipped_channels /\ skipped_channels[5] = 2
    /\ Count(debug_log, 5) = 1
    /\ Count(events[1].trace_list, 5) = 1 /\ Count(events[2].trace_list, 5) = 1

(***************************************************************************)
(* C29: with several channel keys routed to one RawBuffer (the key list    *)
(* 2..4), the rows of that buffer are in packet order and, within a        *)
(* packet, in trace-list order, each row with its own channel and the      *)
(* packet's packet_id; keys outside the key list contribute no rows.       *)
(***************************************************************************)
C29_RowsInPacketAndTraceOrder ==
    AllReturned /\ rbs # <<>> =>
        \A b \in DOMAIN rbs : Written(b) = RowsOf(b, Len(events))

\* two packets with the traces 2,3,4 and 2,5,3 have left the rows of the
\* channels 2,3,4,2,3 in the buffer of the key list 2..4
C29_Witness ==
    /\ AllReturned /\ Len(events) = 2
    /\ \E b \in DOMAIN rbs :
          /\ {k \in DOMAIN evt_rbkd : evt_rbkd[k] = b} = {2, 3, 4}
          /\ rbs[b].loc = 5
          /\ [i \in 1..5 |-> rbs[b].rows[i].channel] = << 2, 3, 4, 2, 3 >>
          /\ [i \in 1..5 |-> rbs[b].rows[i].packet_id]
                = << events[1].packet_id, events[1].packet_id,
                     events[1].packet_id, events[2].packet_id,
                     events[2].packet_id >>
          /\ events[2].packet_id = events[1].packet_id + 1

(***************************************************************************)
(* FCEventDecoder objects and the module's default schema.                 *)
(***************************************************************************)
MaxDecoders == 2       \* at most this many decoder objects are made

FileConfigs == [nadcs : 1..2, nsamples : 1..2]

SchemaFrame ==
    /\ StreamerUnchanged
    /\ UNCHANGED << probe_vars, status_rb, fc_packet_id, fc_last, event_vars >>

\* decoder = FCEventDecoder()
NewEventDecoder ==
    /\ Len(decoders) < MaxDecoders
    /\ \E r \in {new_event_decoder(heap)} :
          /\ heap' = r.heap
          /\ decoders' = Append(decoders, r.decoder)
    /\ schema_last' = [op |-> "new", d |-> Len(decoders) + 1]
    /\ SchemaFrame

\* decoders[d].set_file_config(config)
SetFileConfig ==
    /\ \E d \in DOMAIN decoders, config \in FileConfigs :
         \E r \in {set_file_config(heap, decoders[d], config)} :
            /\ heap' = r.heap
            /\ decoders' = [decoders EXCEPT ![d] = r.decoder]
            /\ schema_last' = [op |-> "set_file_config", d |-> d]
    /\ SchemaFrame

\* fc_decoded_values["packet_id"]["hdf5_settings"] = ..., and its deletion
SetDefaultSettings ==
    /\ \E v \in {"none", "lzf"} :
          heap' = [heap EXCEPT ![1].hdf5_settings = v]
    /\ schema_last' = [op |-> "default", d |-> 0]
    /\ UNCHANGED decoders
    /\ SchemaFrame

SchemaInit ==
    /\ StreamerIdle
    /\ ProbeIdle
    /\ FcIdle

SchemaNext ==
    \/ NewEventDecoder
    \/ SetFileConfig
    \/ SetDefaultSettings

SpecSchema == SchemaInit /\ [][SchemaNext]_vars

\* a step leaves the schema of the decoders other than d as it was
OthersKeep(d) ==
    \A j \in DOMAIN decoders :
        j # d => get_decoded_values(heap', decoders'[j])
                    = get_decoded_values(heap, decoders[j])

ChunkPools ==
    { [config |-> [nadcs |-> MaxAdcs, nsamples |-> 1],
       rbs |-> [k \in 1..Len(caps) |->
                  RawBuffer(caps[k],
                            get_max_rows_in_packet([nadcs |-> MaxAdcs]))],
       rbkd |-> [k \in 0..(MaxAdcs - 1) |->
                   IF Len(caps) = 1 THEN 1
                   ELSE IF Len(caps) = 2 THEN (IF k = 0 THEN 1 ELSE 2)
                   ELSE k + 1]] :
        caps \in { << MaxAdcs >>, << MaxAdcs + 1 >>, << MaxAdcs, MaxAdcs >>,
                   [k \in 1..MaxAdcs |-> MaxAdcs] } }

\* the trace lists of events: each adc at most once, in channel order
ChunkTraceLists ==
    { q \in SeqsUpTo(0..(MaxAdcs - 1), MaxAdcs) :
        \A i, j \in 1..Len(q) : i < j => q[i] < q[j] }

MaxChunkPackets == 4   \* at most this many packets are fed

\* the caller may feed: no call has raised and the last one did not
\* report a full buffer
Feeding == fc_last.err = "none" /\ ~fc_last.ret /\ fc_packet_id < MaxChunkPackets

FeedEvent ==
    /\ Feeding
    /\ \E trace_list \in ChunkTraceLists :
         \E r \in {event_decode_packet(rbs, evt_rbkd, skipped_channels,
                                       debug_log, trace_list, fc_packet_id)} :
              /\ rbs' = r.rbs
              /\ skipped_channels' = r.skipped
              /\ debug_log' = r.log
              /\ fc_last' = [op |-> "event", err |-> r.err, ret |-> r.any_full,
                             before |-> rbs]
    /\ fc_packet_id' = fc_packet_id + 1
    /\ StreamerUnchanged
    /\ UNCHANGED << probe_vars, status_rb, fc_config, evt_rbkd, events,
                    schema_vars >>

FeedStatus ==
    /\ Feeding
    /\ \E status \in {1} :
         \E r \in {status_decode_packet(status_rb, status)} :
            /\ status_rb' = r.rb
            /\ fc_last' = [op |-> "status", err |-> r.err, ret |-> r.ret,
                            before |-> rbs]
    /\ fc_packet_id' = fc_packet_id + 1
    /\ StreamerUnchanged
    /\ UNCHANGED << probe_vars, event_vars, schema_vars >>

\* the writer has taken the chunk: every fill offset is back at zero
Flush ==
    /\ fc_last.err = "none" /\ fc_last.ret
    /\ rbs' = [b \in DOMAIN rbs |-> [rbs[b] EXCEPT !.loc = 0]]
    /\ status_rb' = [status_rb EXCEPT !.loc = 0]
    /\ fc_last' = [op |-> "flush", err |-> "none", ret |-> FALSE,
                   before |-> rbs]
    /\ StreamerUnchanged
    /\ UNCHANGED << probe_vars, fc_packet_id, fc_config, evt_rbkd,
                    skipped_channels, debug_log, events, schema_vars >>

ChunkInit ==
    /\ StreamerIdle
    /\ ProbeIdle
    /\ status_rb \in {RawBuffer(cap, 1) : cap \in 1..2}
    /\ fc_packet_id = 0
    /\ fc_last = NoDecode
    /\ \E p \in ChunkPools :
          /\ fc_config = p.config
          /\ rbs = p.rbs
          /\ evt_rbkd = p.rbkd
    /\ skipped_channels = <<>>
    /\ debug_log = <<>>
    /\ events = <<>>
    /\ SchemaIdle

ChunkNext ==
    \/ FeedEvent
    \/ FeedStatus
    \/ Flush

SpecChunk == ChunkInit /\ [][ChunkNext]_vars

(***************************************************************************)
(* C31: under the chunk protocol, with buffers of capacity at least        *)
(* get_max_rows_in_packet(), no decode_packet of FCEventDecoder or         *)
(* FCStatusDecoder writes a row at an offset at or beyond the capacity of  *)
(* its buffer, several channel keys routed to one RawBuffer included: no   *)
(* call fails on such a row and 0 <= fill offset <= capacity always.       *)
(***************************************************************************)
C31_NoWriteBeyondCapacity ==
    /\ fc_last.err = "none"
    /\ status_rb.loc >= 0 /\ status_rb.loc <= status_rb.cap
    /\ \A b \in DOMAIN rbs : rbs[b].loc >= 0 /\ rbs[b].loc <= rbs[b].cap

\* the errors load_packet_header raises when the cursor and the packet
\* counter disagree with the index
FatalIndexErrors == {"RuntimeError: filepos", "RuntimeError: packet order"}

(***************************************************************************)
(* C32: on an unchanging stream of complete packets opened by open_stream  *)
(* on a fresh streamer, no interleaving of load_packet (any index and      *)
(* whence), skip_packet, build_packet_locs, count_packets and read_packet  *)
(* raises the offset-mismatch or the out-of-order-counter error: between   *)
(* the calls the cursor is at the start of packet number packet_id + 1,    *)
(* and the index holds the offsets of the first packets of the stream.     *)
(***************************************************************************)
C32_NoFatalIndexError ==
    Opened /\ WellFormed =>
        /\ last.err \notin FatalIndexErrors
        /\ packet_id + 1 <= Len(packet_locs)
        /\ Extends(Offsets(1), packet_locs)
        /\ pos = CursorAt(packet_id)
        /\ load_packet_header(St).err = "none"

\* a skip_packet has passed over packet 1 of a fully indexed stream of
\* three packets: its header was compared with the recorded offset
C32_Witness ==
    /\ Opened /\ WellFormed /\ NPackets = 3 /\ packet_locs = Offsets(1)
    /\ last.op = "skip_packet" /\ last.err = "none" /\ last.ret = "True"
    /\ packet_id = 1 /\ pos = EndOf(1)

(***************************************************************************)
(* C33: after open_stream has succeeded on a fresh streamer, at the return *)
(* of every public operation (load_packet, skip_packet, build_packet_locs, *)
(* count_packets, read_packet), whatever the stream holds and however the  *)
(* operation ended, -1 <= packet_id <= len(packet_locs) - 1.               *)
(***************************************************************************)
C33_CounterWithinIndex ==
    Opened =>
        /\ packet_id >= 0 - 1
        /\ packet_id <= Len(packet_locs) - 1
        /\ last.op = "open_stream" => packet_id = 0 /\ Len(packet_locs) = 1

\* build_packet_locs has left the counter on the last of three indexed
\* packets, the upper end of the range
C33_Witness ==
    /\ Opened /\ last.op = "build_packet_locs" /\ last.err = "none"
    /\ Len(packet_locs) = 3 /\ packet_id = Len(packet_locs) - 1

(***************************************************************************)
(* open_stream on a streamer that has already opened a stream.             *)
(***************************************************************************)
MaxReopens == 1        \* open_stream is called at most this often again

\* the files the streamer is opened on, each of complete packets
ReopenStreams ==
    { << HeaderWord, LongWord(IdBound, 2), 0 >>,
      << HeaderWord, ShortWord(IdBound), ShortWord(IdBound) >>,
      << HeaderWord, LongWord(IdBound, 2), 0, ShortWord(IdBound) >>,
      << HeaderWord, ShortWord(IdBound), LongWord(IdMissing, 1) >> }

\* open_stream's load_packet() after set_in_stream and packet_id = -1, on
\* a streamer whose index is locs and whose packet buffer is buf
reopen_packet(locs, buf) ==
    load_packet([pos |-> 0, packet_id |-> 0 - 1, packet_locs |-> locs,
                 n_bytes_read |-> 0, buffer |-> buf],
                FALSE, 0, 0, FALSE)

\* open_stream(stream_name) on a streamer that has opened a stream before:
\* set_in_stream closes the old stream if there is one and opens the file
\* named.  open_stream reads the header packet of the new file and no
\* more; the files all start with the same one-word header packet, so what
\* that read does is computed on the words of the file that was open.
\* Every successful open_stream has appended the id without implementation
\* to missing_decoders.
ReopenStream ==
    /\ ~hung /\ header # "None"
    /\ Len(missing_decoders) <= MaxReopens
    /\ \E new \in ReopenStreams :
          /\ new[1] = stream[1] /\ get_n_words(new[1]) = 1
          /\ stream' = new
    /\ tail' = 0
    /\ in_stream' = "open"
    /\ \E locs \in {packet_locs}, buf \in {buffer} :
       \E r \in {reopen_packet(locs, buf)}, d \in {instantiate_decoders(1, NoDecoders)} :
       LET ok == r.err = "none" /\ r.ret = "packet"
                 /\ get_data_id(r.s.buffer[1], TRUE) = 0
       IN /\ Store(r)
          /\ any_full' = IF ok THEN (any_full \/ header_decode_result)
                          ELSE any_full
          /\ last' = [Call("open_stream",
                           IF r.err = "none" /\ ~ok
                           THEN Out(r.s, "RuntimeError", "None", 0)
                           ELSE r,
                           ok, ok /\ header_decode_result)
                          EXCEPT !.rbs = IF ok THEN header_rb_list ELSE <<>>]
          /\ header' = IF ok THEN "header" ELSE header
          /\ sequential' = ok
          /\ decoder_id_dict' = IF ok THEN d.dict ELSE decoder_id_dict
          /\ missing_decoders' = IF ok THEN d.missing ELSE missing_decoders
          /\ rbl_id_dict' =
                IF ok
                THEN [k \in {i \in DOMAIN d.dict : IdToDecName[i] \in RbLib}
                        |-> IdToDecName[k]] @@ rbl_id_dict
                ELSE rbl_id_dict
    /\ decoded' = <<>>
    /\ warned' = <<>>
    /\ debugged' = <<>>
    /\ UNCHANGED outside_streamer

ReopenInit ==
    /\ stream \in ReopenStreams
    /\ tail = 0
    /\ NewStreamer
    /\ ProbeIdle
    /\ FcIdle

ReopenNext ==
    \/ Next
    \/ CloseStream
    \/ ReopenStream

SpecReopen == ReopenInit /\ [][ReopenNext]_vars

(***************************************************************************)
(* C34: the index and the decoder registry belong to one open stream:      *)
(* when open_stream returns, on a streamer that has opened and read        *)
(* another stream as on a fresh one, packet_locs = [0] and                 *)
(* decoder_id_dict, rbl_id_dict and missing_decoders hold the ids of the   *)
(* new stream's header, each once.                                         *)
(***************************************************************************)
C34_ReopenIsFresh ==
    last.op = "open_stream" /\ last.err = "none" =>
        /\ packet_locs = << 0 >>
        /\ packet_id = 0
        /\ DOMAIN decoder_id_dict \subseteq DOMAIN IdToDecName
        /\ DOMAIN rbl_id_dict \subseteq DOMAIN IdToDecName
        /\ \A k \in DOMAIN IdToDecName :
              Count(missing_decoders, k)
                 = (IF IdToDecName[k] \in Implemented THEN 0 ELSE 1)

(***************************************************************************)
(* C35: after open_stream on a fresh streamer the dispatch tables are      *)
(* consistent: every id of rbl_id_dict is in decoder_id_dict and no id is  *)
(* both in decoder_id_dict and in missing_decoders, so the packet          *)
(* read_packet selects has its decoder and its buffer list, one of each.   *)
(***************************************************************************)
C35_DispatchTablesConsistent ==
    Opened =>
        /\ DOMAIN rbl_id_dict \subseteq DOMAIN decoder_id_dict
        /\ \A k \in DOMAIN decoder_id_dict : ~InSeq(k, missing_decoders)
        /\ \A k \in DOMAIN rbl_id_dict :
              rbl_id_dict[k] = decoder_id_dict[k].name
        /\ last.op = "read_packet" /\ last.dec =>
              /\ get_data_id(buffer[1], FALSE) \in DOMAIN decoder_id_dict
              /\ get_data_id(buffer[1], FALSE) \in DOMAIN rbl_id_dict
              /\ ~InSeq(get_data_id(buffer[1], FALSE), missing_decoders)

\* read_packet has decoded a packet of a stream whose header also declares
\* an id without implementation and an id without buffer list
C35_Witness ==
    /\ Opened /\ last.op = "read_packet" /\ last.dec /\ last.err = "none"
    /\ missing_decoders # <<>>
    /\ DOMAIN decoder_id_dict \ DOMAIN rbl_id_dict # {}
    /\ get_data_id(buffer[1], FALSE) \in DOMAIN rbl_id_dict

(***************************************************************************)
(* C36: on any finite stream skip_packet(n), build_packet_locs,            *)
(* count_packets, load_packet with an index beyond the indexed range and   *)
(* read_packet all terminate: no call is in a loop that never ends.        *)
(***************************************************************************)
C36_AllTerminate == ~hung /\ last.err # "hang"

\* the view load_packet handed back, as it reads in packet buffer b
View(b) == SubSeq(b, 1, last.n)

\* load_packet has just returned a packet of an open stream
ViewHeld == Opened /\ last.op = "load_packet" /\ Loaded(last)

(***************************************************************************)
(* C37 as stated: the view load_packet returned keeps the words of its     *)
(* packet until the next load_packet call: an intervening skip_packet,     *)
(* build_packet_locs or count_packets changes no word of the view.         *)
(***************************************************************************)
C37_ViewKeepsAllWords ==
    ViewHeld /\ WellFormed =>
        LET same(r) == r.err = "none" /\ View(r.s.buffer) = View(buffer)
        IN /\ \A n \in 0..(MaxWords + 1) : same(skip_packet(St, n))
           /\ \A saveloc \in BOOLEAN :
                 /\ same(build_packet_locs(St, saveloc))
                 /\ same(count_packets(St, saveloc))

(***************************************************************************)
(* C37 amended: the view load_packet returned holds the words of its       *)
(* packet when it is returned.  skip_packet, build_packet_locs and         *)
(* count_packets, from any state of an open stream of complete packets,    *)
(* keep the length of the packet buffer and every word of it but the       *)
(* first: each header they read is read into the first word, which is the  *)
(* first word of the view.  After skip_packet it holds the header of the   *)
(* last packet passed over (it is unchanged if none was), after            *)
(* build_packet_locs and count_packets the header of the last packet of    *)
(* the stream.  Only the caller's copy keeps the header word.              *)
(***************************************************************************)
C37_ViewKeepsPayloadOnly ==
    Opened /\ WellFormed =>
        LET kept(r) ==
                /\ r.err = "none"
                /\ KeepsPayloadWords(r.s.buffer, buffer)
            skipped(r) ==
                /\ kept(r)
                /\ r.s.buffer[1] = (IF r.s.packet_id = packet_id THEN buffer[1]
                                    ELSE HeaderOf(r.s.packet_id))
            built(r) ==
                /\ kept(r)
                /\ r.s.buffer[1] = HeaderOf(NPackets - 1)
        IN /\ ViewHeld => View(buffer) = SubSeq(PacketWords(packet_id), 1, last.n)
           /\ \A n \in 0..(MaxWords + 1) : skipped(skip_packet(St, n))
           /\ \A saveloc \in BOOLEAN :
                 /\ built(build_packet_locs(St, saveloc))
                 /\ built(count_packets(St, saveloc))

\* load_packet has returned a two-word packet that is followed by a packet
\* with another header word
C37_Witness ==
    /\ ViewHeld /\ WellFormed /\ last.n = 2
    /\ packet_id + 1 <= NPackets - 1
    /\ HeaderOf(packet_id + 1) # buffer[1]
    /\ skip_packet(St, 1).s.buffer[1] # buffer[1]


\* the stream holds its first packet with all its words
FirstPacketWhole ==
    /\ Len(stream) >= 1
    /\ get_n_words(stream[1]) >= 1
    /\ Len(stream) >= get_n_words(stream[1])

\* open_stream has just returned or raised
JustOpened == last.op = "open_stream"

(***************************************************************************)
(* C38: open_stream raises, with no decoder registered and no buffer       *)
(* bound, when the stream holds no packet or when the destination id of    *)
(* its first packet is not 0; when it returns, it returns a list of        *)
(* exactly one buffer, which holds the header and has fill offset 1, the   *)
(* packet counter is 0 and the cursor is at the start of packet 1.         *)
(***************************************************************************)
C38_OpenStreamOutcome ==
    JustOpened =>
        /\ (~FirstPacketWhole \/ get_data_id(stream[1], TRUE) # 0)
               => /\ last.err # "none"
                  /\ header = "None"
                  /\ decoder_id_dict = <<>>
                  /\ missing_decoders = <<>>
                  /\ rbl_id_dict = <<>>
                  /\ last.rbs = <<>>
        /\ last.err = "none"
               => /\ FirstPacketWhole
                  /\ get_data_id(stream[1], TRUE) = 0
                  /\ Len(last.rbs) = 1
                  /\ last.rbs[1].lgdo = header
                  /\ header = "header"
                  /\ last.rbs[1].loc = 1
                  /\ packet_id = 0
                  /\ pos = 4 * get_n_words(stream[1])
                  /\ packet_locs = <<0>>

\* open_stream has returned on a stream that goes on after the header
C38_Witness ==
    /\ JustOpened /\ last.err = "none"
    /\ Len(last.rbs) = 1
    /\ Len(stream) > get_n_words(stream[1])

====
